---- MODULE Spec2Model ----
(***************************************************************************)
(* The tool-provider client subsystem of loomos (src/src/mcp): Transport,  *)
(* Session, Client and Manager, as a state machine.                        *)
(*                                                                         *)
(* Strings that are split on "_" (server ids, tool names) are sequences of *)
(* "_"-free segments: "fs_read_file" is <<"fs","read","file">>, so that    *)
(* `${a}_${b}` is a \o b and name.split('_') is the sequence itself.       *)
(*                                                                         *)
(* One JavaScript task runs to completion: an action is one task (a call   *)
(* from outside, a timer, an I/O event) up to its next await.  Promise     *)
(* continuations are microtasks and run before the next task, which the    *)
(* guard ~Runnable of every task states.                                   *)
(***************************************************************************)
EXTENDS Integers, Sequences, FiniteSets, TLC

\* ---------------------------------------------------------------- bounds
\* connect() calls a caller makes on one Client, callTool() calls made in one
\* run, Client objects the Manager creates (from its configuration, by
\* addServer, for announcements).
MaxConnects == 1
MaxCalls == 2
MaxClients == 2

\* Servers in the configuration the Manager loads.
MaxServers == 1

\* request() calls on the Session whose identifiers are drawn, and the size
\* of the space createId() draws from.
MaxRequests == 3
MaxIdStrings == 2

\* Content items in one tool-call result.
MaxContent == 2

\* The isolated Client: startPeriodicSync calls that set a timer,
\* stopPeriodicSync calls, runs of the sync.
MaxStarts == 2
MaxStops == 2
MaxSyncs == 2

\* Two Clients side by side: callTool() calls of the Client that stays
\* connected while the other one connects and fails.
MaxPairCalls == 1

\* The agent's client caches: getMCPClient / getIsolatedMCPClient calls.
MaxGets == 2

\* The worker pool: the concurrency option, start() calls, tasks waiting in
\* the queue.
MaxWorkers == 2
MaxPoolStarts == 2
MaxPending == 2

\* The scheduler: scheduled jobs, clock ticks, tasks enqueued, ticks between
\* two runs of a cron expression, ticks before a retry.
MaxJobs == 2
MaxNow == 2
MaxEnqueues == 2
CronPeriod == 2
RetryDelay == 1

\* The task queue: rows created, claimTask calls.
MaxTasks == 2
MaxClaims == 3

\* One Transport on its own: characters in one read of the child's standard
\* output and in one pushed event, reads and events, send() calls, close()
\* calls.
MaxChunk == 3
MaxFrame == 2
MaxReads == 2
MaxSends == 2
MaxCloses == 2

\* A connect() call creates one Transport and one Session; the Manager
\* calls connect() once on every Client it creates.
MaxSlots == IF MaxClients > MaxConnects THEN MaxClients ELSE MaxConnects

\* Every connect() issues at most two requests, every callTool() at most one.
MaxIds == 2 * MaxSlots + MaxCalls

Ids == 1..MaxIds
Conns == 1..MaxSlots
AllClients == 1..MaxClients
Calls == 1..MaxCalls

\* ------------------------------------------------------------- constants
Null == 0
UnknownId == 0
NoId == -1
Undefined == "undefined"
NoError == <<>>
NoAgent == [unit |-> "none"]
NoDb == [unit |-> "none"]
NoPipe == [unit |-> "none"]

TransportKinds == {"stdio", "sse"}
ConfigKinds == TransportKinds \cup {"bogus"}
Args == {"a1", "a2"}
ResultVals == {"r1", "tools"}
ErrorMessages == {"boom"}

VARIABLES client, tr, sess, req, conn, mgr, mcall, disc, chan, rpc, agent, db, pipe

vars == <<client, tr, sess, req, conn, mgr, mcall, disc, chan, rpc, agent, db, pipe>>

mgrVars == <<mgr, mcall>>

\* The objects exercised on their own: the Discovery listener, one Transport
\* with a recording handler, one Session whose identifiers are drawn, and
\* the agent's side: its tool conversion, its tool handlers, its isolated
\* Client with the periodic sync.
unitVars == <<disc, chan, rpc, agent, db, pipe>>

clientVars == <<client, tr, sess, req, conn>>

envVars == <<mgr, mcall, disc, chan, rpc, agent, db, pipe>>

\* ----------------------------------------------------------------- state
\* client[c]: the closure variables of createMcpClient (config, transport,
\*   session, tools, capabilities, state).
\* tr[t]: one Transport object (the t-th createTransport call).
\* sess[s]: one Session object (created by the s-th connect() call).
\* req[i]: the request with identifier i: its message, its promise, its timer.
\* conn[k]: the k-th connect() call: where it is suspended, how it ended.

NoTransport ==
    [kind |-> "none", proc |-> FALSE, endpoint |-> FALSE, isConnected |-> FALSE,
     handlers |-> {}, sent |-> {}]

NoSession == [made |-> FALSE, transport |-> Null, pending |-> {}, handlerRegistered |-> FALSE]

NoRequest ==
    [issued |-> FALSE, session |-> Null, method |-> "", name |-> <<>>, args |-> "",
     promise |-> "none", value |-> Undefined, error |-> NoError, timer |-> FALSE]

NoConnect == [client |-> Null, pc |-> "unused", initId |-> Null, listId |-> Null, error |-> NoError]

\* The tools each server advertises in its tools/list result.
ServerTools(id) ==
    IF id = <<"fs">> THEN {<<"read", "file">>}
    ELSE IF id = <<"db">> THEN {<<"query">>}
    ELSE IF id = <<"my", "fs">> THEN {<<"read", "file">>}
    ELSE {}

\* createMcpClient(config): the state after construction.
NoClient ==
    [made |-> FALSE, id |-> <<>>, kind |-> "none", state |-> "disconnected",
     transport |-> Null, session |-> Null, tools |-> {}, capabilities |-> "null"]

createMcpClient(id, kind) ==
    [made |-> TRUE, id |-> id, kind |-> kind, state |-> "disconnected",
     transport |-> Null, session |-> Null, tools |-> {}, capabilities |-> "null"]

\* -------------------------------------------------------------- messages
\* An inbound value, by the keys parseJsonRpcResponse looks at: key says which
\* of 'result', a truthy 'error', 'method' it carries ("none": neither).
InboundMsg(ids) ==
    [jsonrpc : {"2.0"}, id : ids, key : {"result"}, val : ResultVals]
    \cup [jsonrpc : {"2.0"}, id : ids, key : {"error"}, val : ErrorMessages]
    \cup [jsonrpc : {"2.0"}, id : ids \cup {NoId}, key : {"method"}, val : {"ping"}]
    \cup [jsonrpc : {"2.0"}, id : ids, key : {"none"}, val : {""}]
    \cup [jsonrpc : {"1.0"}, id : ids, key : {"result"}, val : {"r1"}]

NoMessage == [id |-> NoId, result |-> Undefined, error |-> NoError, method |-> ""]

\* parseJsonRpcResponse: NoMessage stands for null.
parseJsonRpcResponse(m) ==
    IF m.jsonrpc # "2.0" THEN NoMessage
    ELSE IF m.key = "result"
        THEN [id |-> m.id, result |-> m.val, error |-> NoError, method |-> ""]
    ELSE IF m.key = "error"
        THEN [id |-> m.id, result |-> Undefined,
              error |-> <<IF m.val = "" THEN "Unknown error" ELSE m.val>>, method |-> ""]
    ELSE IF m.key = "method"
        THEN [id |-> m.id, result |-> Undefined, error |-> NoError, method |-> m.val]
    ELSE NoMessage

\* createId: a fresh identifier.  The code draws about 100 random bits; the
\* model takes the draw to be collision-free and names the identifiers in
\* the order they are drawn.
IssuedIds == {i \in Ids : req[i].issued}

createId == CHOOSE i \in Ids : ~req[i].issued /\ \A j \in Ids : ~req[j].issued => i <= j

CanCreateId == IssuedIds # Ids

\* --------------------------------------------------------------- promise
\* resolve / reject of a promise that may already be settled (then a no-op).
Resolve(r, v) ==
    IF r.promise = "pending" THEN [r EXCEPT !.promise = "resolved", !.value = v] ELSE r

Reject(r, e) ==
    IF r.promise = "pending" THEN [r EXCEPT !.promise = "rejected", !.error = e] ELSE r

TimeoutError(method) == <<"Request timeout", method>>

\* ------------------------------------------------------------- transport
\* Transport.send: whether the message reaches the server.  stdio writes to
\* the child's stdin (proc must be set; a child that exited reads nothing);
\* sse POSTs to postEndpoint.
SendReaches(t) ==
    IF t.kind = "stdio" THEN t.proc /\ t.isConnected
    ELSE t.endpoint

\* Transport.close of either kind: the child is killed and proc dropped, the
\* event source is closed and dropped; postEndpoint stays.
TransportClosed(t) == [t EXCEPT !.proc = FALSE, !.isConnected = FALSE]

\* --------------------------------------------------------------- session
\* The timer callback of request(): delete the entry, reject the caller.
PendingAfterTimeout_Keep(pending, i) == pending

PendingAfterTimeout_All(pending, i) == {}

PendingAfterTimeout(pending, i) == pending \ {i}

RequestAfterTimeout(r) == [Reject(r, TimeoutError(r.method)) EXCEPT !.timer = FALSE]

\* handleMessage on the entry found for parsed.id: reject on error, else
\* resolve (the stored resolve clears the timer first).
RequestAfterMessage(r, parsed) ==
    IF parsed.error # NoError THEN Reject(r, parsed.error)
    ELSE [Resolve(r, parsed.result) EXCEPT !.timer = FALSE]

PendingAfterMessage_Keep(pending, parsed) == pending

PendingAfterMessage(pending, parsed) == pending \ {parsed.id}

\* Map.get of handleMessage: the entry stored under the identifier (the
\* entries are named by their identifiers), NoId when there is none.
PendingGet_Oldest(pending, i) ==
    IF pending = {} THEN NoId ELSE CHOOSE j \in pending : \A h \in pending : j <= h

PendingGet(pending, i) == IF i \in pending THEN i ELSE NoId

\* The entry session s finds for the message, NoId for none.
Found(s, parsed) ==
    IF parsed = NoMessage THEN NoId ELSE PendingGet(sess[s].pending, parsed.id)

\* The request record request() registers: the promise, its timer.
NewRequest(s, method, name, args) ==
    [issued |-> TRUE, session |-> s, method |-> method, name |-> name, args |-> args,
     promise |-> "pending", value |-> Undefined, error |-> NoError, timer |-> TRUE]

\* request(): transport.send inside the promise executor.  A null transport
\* throws there and rejects the promise; a send that fails rejects only the
\* promise send() returned, which nobody holds.
RequestSent(r, t) == IF t = Null THEN Reject(r, <<"TypeError">>) ELSE r

TransportAfterSend(trs, t, i) ==
    IF t # Null /\ SendReaches(trs[t])
    THEN [trs EXCEPT ![t].sent = @ \cup {i}]
    ELSE trs

\* ---------------------------------------------------------------- client
\* A connect() call whose awaited promise is settled: its continuation is a
\* microtask, which runs before any further task.
Runnable ==
    \E k \in Conns :
        \/ conn[k].pc = "awaitInit" /\ req[conn[k].initId].promise # "pending"
        \/ conn[k].pc = "awaitList" /\ req[conn[k].listId].promise # "pending"
        \/ conn[k].pc = "awaitTransport" /\ tr[k].kind \in {"sse", "none"}

\* What createTransport(config.transport) throws: config.type of a
\* configuration without a transport cannot be read.
CreateTransportError(kind) ==
    IF kind = Undefined THEN <<"TypeError">> ELSE <<"Unsupported transport type">>

\* The catch block of connect(): state = 'error', rethrow.
StateAfterCatch_Keep(st) == st

StateAfterCatch(st) == "error"

ConnectFailed(k, e) ==
    /\ conn' = [conn EXCEPT ![k].pc = "rejected", ![k].error = e]
    /\ client' = [client EXCEPT ![conn[k].client].state = StateAfterCatch(@)]

\* createTransport: the Transport object of the configured type, none for
\* a type it does not know (it throws).
createTransport(kind) ==
    IF kind \in TransportKinds
    THEN [NoTransport EXCEPT !.kind = kind, !.proc = (kind = "sse"),
                             !.endpoint = (kind = "sse")]
    ELSE NoTransport

\* connect(), to its first await: state = 'connecting', createTransport,
\* transport.connect() called.  HttpSseTransport's connect for 'sse' has no
\* await: the event source and postEndpoint are set in the call itself.  A
\* throw of createTransport is caught in the same call; the step that
\* catches it is TransportConnectFail.
ConnectCall(c) ==
    /\ ~Runnable
    /\ client[c].made
    /\ \E k \in Conns :
        /\ conn[k].pc = "unused"
        /\ \A j \in Conns : conn[j].pc = "unused" => k <= j
        /\ conn' = [conn EXCEPT ![k] = [NoConnect EXCEPT !.client = c,
                                                         !.pc = "awaitTransport"]]
        /\ client' = [client EXCEPT ![c].state = "connecting",
                        ![c].transport = IF client[c].kind \in TransportKinds
                                         THEN k ELSE @]
        /\ tr' = [tr EXCEPT ![k] = createTransport(client[c].kind)]
    /\ UNCHANGED <<sess, req>>

\* transport.connect() failed (the import or the spawn threw, the event
\* source could not be constructed), or createTransport threw: connect()
\* catches it.
TransportConnectFail(k) ==
    /\ conn[k].pc = "awaitTransport"
    /\ tr[k].kind \in {"sse", "none"} \/ ~Runnable
    /\ tr[k].kind = "sse" => ~tr[k].isConnected
    /\ ConnectFailed(k, IF tr[k].kind = "none"
                        THEN CreateTransportError(client[conn[k].client].kind)
                        ELSE <<"Transport connect failed">>)
    /\ tr' = IF tr[k].kind = "sse" THEN [tr EXCEPT ![k].proc = FALSE, ![k].endpoint = FALSE]
             ELSE tr
    /\ UNCHANGED <<sess, req>>

\* StdioTransport.connect after its import: spawn, isConnected = true.
TransportConnected(t) ==
    IF t.kind = "stdio" THEN [t EXCEPT !.proc = TRUE, !.isConnected = TRUE] ELSE t

\* transport.connect() resolved; connect() goes on to its next await:
\* createSession(transport), registerHandler(), request('initialize').  The
\* session wraps what the closure variable transport holds now.
TransportConnectDone(k) ==
    LET c == conn[k].client
        t == client[c].transport
        i == createId
        trs == [tr EXCEPT ![k] = TransportConnected(@)]
    IN  /\ conn[k].pc = "awaitTransport"
        /\ tr[k].kind \in TransportKinds
        /\ tr[k].kind = "sse" \/ ~Runnable
        /\ CanCreateId
        /\ IF t = Null
           THEN \* registerHandler reads transport.onMessage of null
                /\ sess' = [sess EXCEPT ![k] = [NoSession EXCEPT !.made = TRUE]]
                /\ conn' = [conn EXCEPT ![k].pc = "rejected", ![k].error = <<"TypeError">>]
                /\ client' = [client EXCEPT ![c].session = k,
                                            ![c].state = StateAfterCatch(@)]
                /\ tr' = trs
                /\ UNCHANGED req
           ELSE /\ sess' = [sess EXCEPT ![k] = [made |-> TRUE, transport |-> t,
                                    pending |-> {i}, handlerRegistered |-> TRUE]]
                /\ req' = [req EXCEPT ![i] = NewRequest(k, "initialize", <<>>, "")]
                /\ tr' = TransportAfterSend(
                            [trs EXCEPT ![t].handlers = @ \cup {k}], t, i)
                /\ conn' = [conn EXCEPT ![k].pc = "awaitInit", ![k].initId = i]
                /\ client' = [client EXCEPT ![c].session = k]

\* initResponse.capabilities of a result object.
Caps(v) == "capabilities"

\* Whether reading a property of the value throws (undefined has none).
HasProperties(v) == v # Undefined

\* response.tools.map: only a tools/list result has the array.
HasTools(v) == v = "tools"

\* The initialize request settled; connect() goes on: capabilities, then
\* listTools() to its await.
ConnectAfterInit(k) ==
    LET c == conn[k].client
        r == req[conn[k].initId]
        s == client[c].session
        i == createId
    IN  /\ conn[k].pc = "awaitInit"
        /\ r.promise # "pending"
        /\ CanCreateId
        /\ IF r.promise = "rejected"
           THEN ConnectFailed(k, r.error) /\ UNCHANGED <<tr, sess, req>>
           ELSE IF ~HasProperties(r.value)
           THEN ConnectFailed(k, <<"TypeError">>) /\ UNCHANGED <<tr, sess, req>>
           ELSE IF s = Null
           THEN /\ conn' = [conn EXCEPT ![k].pc = "rejected",
                                        ![k].error = <<"Client not connected">>]
                /\ client' = [client EXCEPT ![c].capabilities = Caps(r.value),
                                            ![c].state = StateAfterCatch(@)]
                /\ UNCHANGED <<tr, sess, req>>
           ELSE /\ req' = [req EXCEPT ![i] =
                              RequestSent(NewRequest(s, "tools/list", <<>>, ""),
                                          sess[s].transport)]
                /\ sess' = [sess EXCEPT ![s].pending = @ \cup {i}]
                /\ tr' = TransportAfterSend(tr, sess[s].transport, i)
                /\ conn' = [conn EXCEPT ![k].pc = "awaitList", ![k].listId = i]
                /\ client' = [client EXCEPT ![c].capabilities = Caps(r.value)]

\* The tools/list request settled; listTools() caches the tools and
\* connect() sets state = 'connected'.
ConnectAfterList(k) ==
    LET c == conn[k].client
        r == req[conn[k].listId]
    IN  /\ conn[k].pc = "awaitList"
        /\ r.promise # "pending"
        /\ IF r.promise = "rejected"
           THEN ConnectFailed(k, r.error)
           ELSE IF ~HasTools(r.value)
           THEN ConnectFailed(k, <<"TypeError">>)
           ELSE /\ conn' = [conn EXCEPT ![k].pc = "resolved"]
                /\ client' = [client EXCEPT ![c].tools = ServerTools(client[c].id),
                                            ![c].state = "connected"]
        /\ UNCHANGED <<tr, sess, req>>

\* unregisterHandler of session s, on the transports.
Unregistered_All(trs, s) ==
    IF sess[s].handlerRegistered
    THEN [t \in DOMAIN trs |-> [trs[t] EXCEPT !.handlers = {}]]
    ELSE trs

Unregistered(trs, s) ==
    IF sess[s].handlerRegistered
    THEN [trs EXCEPT ![sess[s].transport].handlers = @ \ {s}]
    ELSE trs

\* Session.close(): unregisterHandler(), then transport.close().
SessionClose(trs, s) ==
    LET u == Unregistered(trs, s)
    IN  [u EXCEPT ![sess[s].transport] = TransportClosed(@)]

PendingAfterClose(pending) == pending

\* disconnect(): session.close(), transport.close(), state = 'disconnected'.
\* Its awaits are of promises that are already resolved.  A session whose
\* transport is null (connect() failed in registerHandler) makes
\* session.close() throw, which ends disconnect() there.
Disconnect(c) ==
    LET s == client[c].session
        t == client[c].transport
        afterSession == IF s # Null THEN SessionClose(tr, s) ELSE tr
    IN  /\ ~Runnable
        /\ client[c].made
        /\ s # Null => sess[s].transport # Null
        /\ tr' = IF t # Null THEN [afterSession EXCEPT ![t] = TransportClosed(@)]
                 ELSE afterSession
        /\ sess' = IF s # Null
                   THEN [sess EXCEPT ![s].handlerRegistered = FALSE,
                                     ![s].pending = PendingAfterClose(@)]
                   ELSE sess
        /\ client' = [client EXCEPT ![c].session = Null, ![c].transport = Null,
                                    ![c].state = "disconnected"]
        /\ UNCHANGED <<req, conn>>

\* callTool's guard: the session, not the state.
CallToolAllowed(c) == client[c].session # Null

\* Client.callTool(name, args): session.request('tools/call', ...).  Without
\* a session it throws and nothing changes.
ClientCallTool(c, name, args) ==
    LET s == client[c].session
        i == createId
    IN  /\ client[c].made
        /\ CanCreateId
        /\ IF CallToolAllowed(c)
           THEN /\ req' = [req EXCEPT ![i] =
                              RequestSent(NewRequest(s, "tools/call", name, args),
                                          sess[s].transport)]
                /\ sess' = [sess EXCEPT ![s].pending = @ \cup {i}]
                /\ tr' = TransportAfterSend(tr, sess[s].transport, i)
           ELSE UNCHANGED <<req, sess, tr>>
        /\ UNCHANGED <<client, conn>>

CallTool(c, name, args) == ~Runnable /\ ClientCallTool(c, name, args)

\* The timer of request i fires.
Timeout(i) ==
    /\ ~Runnable
    /\ req[i].timer
    /\ req' = [req EXCEPT ![i] = RequestAfterTimeout(@)]
    /\ sess' = [sess EXCEPT ![req[i].session].pending = PendingAfterTimeout(@, i)]
    /\ UNCHANGED <<client, tr, conn>>

\* handleMessage of every handler registered with transport t, on message m.
handleMessage(t, m) ==
    LET parsed == parseJsonRpcResponse(m)
        hit == {s \in tr[t].handlers : Found(s, parsed) # NoId}
    IN  /\ req' = [i \in Ids |->
                     IF \E s \in hit : Found(s, parsed) = i
                     THEN RequestAfterMessage(req[i], parsed)
                     ELSE req[i]]
        /\ sess' = [s \in Conns |->
                      IF s \in hit
                      THEN [sess[s] EXCEPT !.pending = PendingAfterMessage(@, parsed)]
                      ELSE sess[s]]

\* The server's message m arrives on transport t (a line of the child's
\* stdout, an event of the event stream) and goes to the handlers.
Receive(t, m) ==
    /\ ~Runnable
    /\ tr[t].isConnected
    /\ handleMessage(t, m)
    /\ UNCHANGED <<client, tr, conn>>

\* The event stream opens (EventSource.onopen).
TransportOpen(t) ==
    /\ ~Runnable
    /\ tr[t].kind = "sse" /\ tr[t].proc /\ ~tr[t].isConnected
    /\ tr' = [tr EXCEPT ![t].isConnected = TRUE]
    /\ UNCHANGED <<client, sess, req, conn>>

\* The channel fails: the child exits ('close'), the event stream errors
\* (onerror).  Only the transport's flag changes.
ClientAfterTransportFailure(cl, t) == cl

TransportFailure(t) ==
    /\ ~Runnable
    /\ tr[t].isConnected
    /\ tr' = [tr EXCEPT ![t].isConnected = FALSE]
    /\ client' = ClientAfterTransportFailure(client, t)
    /\ UNCHANGED <<sess, req, conn>>

\* --------------------------------------------------------------- manager
\* mgr: the closure variables of createMcpManager.  clients and registry map
\* a server id to a Client (Null: no entry); tools is the tool registry's
\* map, by its keys.  mcall[j]: the j-th Manager.callTool call.
ServerIds == {<<"fs">>, <<"db">>, <<"my", "fs">>}

\* The documents loadMcpConfig may return: the enabled servers, in order.
Configs ==
    {config \in
        {<<[id |-> <<"fs">>, kind |-> "stdio"]>>,
         <<[id |-> <<"db">>, kind |-> "sse"]>>,
         <<[id |-> <<"my", "fs">>, kind |-> "stdio"]>>,
         <<[id |-> <<"fs">>, kind |-> "stdio"], [id |-> <<"db">>, kind |-> "sse"]>>} :
        Len(config) <= MaxServers}

\* loaded: ensureInitialized has made the registries (they are null before).
\* discoveryEnabled: options.enableDiscovery !== false and the loaded
\* configuration's discovery.enabled; discovery: the Discovery object is made.
createMcpManager(config) ==
    [config |-> config, initialized |-> FALSE,
     clients |-> [id \in ServerIds |-> Null],
     registry |-> [id \in ServerIds |-> Null],
     tools |-> {},
     loaded |-> FALSE,
     discoveryEnabled |-> FALSE, discovery |-> FALSE]

\* ErrorCodes.ToolNotFound.
ToolNotFound == -32003
ConnectionFailed == -32001

\* The code of an error that has no code property (what new Error(...) makes).
NoCode == 0

\* error, errorCode: the message and the code property of what the call threw.
NoCall == [pc |-> "unused", name |-> <<>>, args |-> "", client |-> Null, id |-> Null,
           error |-> NoError, errorCode |-> NoCode]

\* toLoomosTool: the namespaced name `${serverId}_${mcpTool.name}`.
toLoomosToolName(serverId, name) == serverId \o name

\* The names callers pass to Manager.callTool.
CallNames ==
    {toLoomosToolName(id, t) : id \in ServerIds, t \in UNION {ServerTools(x) : x \in ServerIds}}
    \cup {<<"zz", "tool">>}

MadeClients == {c \in AllClients : client[c].made}

\* The Client objects a run of ensureInitialized creates: one per server of
\* the configuration, numbered in the order of creation.
NewClient(n) == Cardinality(MadeClients) + n

\* ensureInitialized past its await, and callTool's own continuation, are
\* microtasks of the call.
MgrRunnable == \E j \in Calls : mcall[j].pc \in {"loading", "routing"}

\* callTool after ensureInitialized: name.split('_')[0] is the server id,
\* clients.get(serverId) the Client, client.callTool(name, args) the call.
SplitServerId(name) == <<name[1]>>

CallToolName(name) == name

Route(j, name, args, clients, cl, trs) ==
    LET serverId == SplitServerId(name)
        c == IF serverId \in ServerIds THEN clients[serverId] ELSE Null
        i == createId
    IN  IF c = Null
        THEN /\ mcall' = [mcall EXCEPT ![j] = [NoCall EXCEPT !.pc = "failed",
                               !.name = name, !.args = args,
                               !.error = <<"MCP server not found">> \o serverId]]
             /\ UNCHANGED <<req, sess>>
             /\ tr' = trs
        ELSE IF cl[c].session = Null
        THEN /\ mcall' = [mcall EXCEPT ![j] = [NoCall EXCEPT !.pc = "failed",
                               !.name = name, !.args = args, !.client = c,
                               !.error = <<"Client not connected">>]]
             /\ UNCHANGED <<req, sess>>
             /\ tr' = trs
        ELSE /\ mcall' = [mcall EXCEPT ![j] = [NoCall EXCEPT !.pc = "called",
                               !.name = name, !.args = args, !.client = c, !.id = i]]
             /\ req' = [req EXCEPT ![i] =
                           RequestSent(NewRequest(cl[c].session, "tools/call",
                                                  CallToolName(name), args),
                                       sess[cl[c].session].transport)]
             /\ sess' = [sess EXCEPT ![cl[c].session].pending = @ \cup {i}]
             /\ tr' = TransportAfterSend(trs, sess[cl[c].session].transport, i)

\* Manager.callTool(name, args), to the await in ensureInitialized; when the
\* manager is initialized there is nothing to wait for.
MgrCallTool(name, args) ==
    /\ ~Runnable
    /\ ~MgrRunnable
    /\ \E j \in Calls :
        /\ mcall[j].pc = "unused"
        /\ \A h \in Calls : mcall[h].pc = "unused" => j <= h
        /\ IF mgr.initialized
           THEN /\ Route(j, name, args, mgr.clients, client, tr)
                /\ UNCHANGED <<client, conn, mgr>>
           ELSE /\ mcall' = [mcall EXCEPT ![j] = [NoCall EXCEPT !.pc = "loading",
                                   !.name = name, !.args = args]]
                /\ UNCHANGED <<client, tr, sess, req, conn, mgr>>

\* A Manager operation called while another call's ensureInitialized is
\* still at its await of loadMcpConfig (both issued in one task, as in
\* Promise.all): it has read initialized = false too and waits the same way.
MgrCallDuringInit(name, args) ==
    /\ ~Runnable
    /\ ~mgr.initialized
    /\ \E h \in Calls : mcall[h].pc = "loading"
    /\ \E j \in Calls :
        /\ mcall[j].pc = "unused"
        /\ \A h \in Calls : mcall[h].pc = "unused" => j <= h
        /\ mcall' = [mcall EXCEPT ![j] = [NoCall EXCEPT !.pc = "loading",
                                !.name = name, !.args = args]]
    /\ UNCHANGED <<client, tr, sess, req, conn, mgr>>

\* addServer for the n-th server of the configuration: createMcpClient,
\* connect() to its first await, clients.set.
AddedClient(cfg) == [createMcpClient(cfg.id, cfg.kind) EXCEPT !.state = "connecting"]

\* ensureInitialized after loadMcpConfig: new registries, addServer for
\* every server, initialized = true.  Every connect() it started whose
\* transport.connect() has no await (or whose createTransport threw) has its
\* continuation queued before callTool's own.
MgrLoaded(j) ==
    LET config == mgr.config
        n == Len(config)
        new == {NewClient(x) : x \in 1..n}
        cfgOf(c) == config[c - Cardinality(MadeClients)]
        clients == [id \in ServerIds |->
                      IF \E x \in 1..n : config[x].id = id
                      THEN NewClient(CHOOSE x \in 1..n :
                              config[x].id = id /\ \A y \in 1..n : config[y].id = id => y <= x)
                      ELSE mgr.clients[id]]
        cl == [c \in AllClients |->
                 IF c \in new
                 THEN [AddedClient(cfgOf(c)) EXCEPT !.transport = c]
                 ELSE client[c]]
    IN  /\ mcall[j].pc = "loading"
        /\ new \subseteq AllClients
        /\ client' = cl
        /\ conn' = [k \in Conns |->
                      IF k \in new THEN [NoConnect EXCEPT !.client = k, !.pc = "awaitTransport"]
                      ELSE conn[k]]
        /\ mgr' = [mgr EXCEPT !.initialized = ~mgr.discoveryEnabled,
                              !.loaded = TRUE,
                              !.discovery = mgr.discoveryEnabled \/ @,
                              !.clients = clients,
                              !.registry = [id \in ServerIds |-> Null], !.tools = {}]
        /\ tr' = [t \in Conns |->
                    IF t \in new THEN createTransport(cfgOf(t).kind) ELSE tr[t]]
        /\ mcall' = [mcall EXCEPT ![j].pc =
                        IF mgr.discoveryEnabled THEN "starting" ELSE "routing"]
        /\ UNCHANGED <<req, sess>>

\* callTool after ensureInitialized returned.
MgrRoute(j) ==
    /\ mcall[j].pc = "routing"
    /\ ~Runnable
    /\ Route(j, mcall[j].name, mcall[j].args, mgr.clients, client, tr)
    /\ UNCHANGED <<client, conn, mgr>>

\* The then-callback addServer puts on connect(): registry?.register(client),
\* toolRegistry?.addTools(client.getTools(), id); both are null until
\* ensureInitialized has made them.
Registered(m, c, cl) ==
    IF m.loaded
    THEN [m EXCEPT !.registry[cl.id] = c,
                   !.tools = @ \cup {toLoomosToolName(cl.id, t) : t \in cl.tools}]
    ELSE m

MgrConnectAfterList(k) ==
    /\ ConnectAfterList(k)
    /\ mgr' = IF conn'[k].pc = "resolved"
              THEN Registered(mgr, conn[k].client, client'[conn[k].client])
              ELSE mgr
    /\ UNCHANGED mcall

\* ------------------------------------------------------------- discovery
\* disc: the Discovery object: whether its HTTP server listens, the status
\* of the last response to POST /announce (Null: none yet), the number of
\* serverFound events emitted, the Clients the Manager's serverFound handler
\* added.
NoDiscovery == [listening |-> FALSE, status |-> Null, emitted |-> 0, added |-> {}]

\* The transport types ServerConfigSchema accepts.
SchemaKinds == {"stdio", "http", "sse", "websocket"}

\* The bodies POSTed to /announce: text that is no JSON, a JSON object with
\* an id and nothing else, a ServerConfig.
AnnounceBodies ==
    {[parses |-> FALSE, id |-> <<>>, kind |-> Undefined],
     [parses |-> TRUE, id |-> <<"fs">>, kind |-> Undefined],
     [parses |-> TRUE, id |-> <<"fs">>, kind |-> "stdio"]}

\* validateServerConfig: whether the schema accepts the parsed body.
validateServerConfig(body) == body.parses /\ body.id # <<>> /\ body.kind \in SchemaKinds

\* JSON.parse(body) as the ServerConfig the handler hands on.
ParsedConfig(body) == [id |-> body.id, kind |-> body.kind]

\* addServer(config): createMcpClient, connect() to its first await (a throw
\* of createTransport is caught there, its catch being the next microtask),
\* clients.set(config.id, client).
AddServer(cfg) ==
    LET c == NewClient(1)
    IN  /\ c \in AllClients
        /\ client' = [client EXCEPT ![c] =
                         [AddedClient(cfg) EXCEPT !.transport =
                             IF cfg.kind \in TransportKinds THEN c ELSE Null]]
        /\ conn' = [conn EXCEPT ![c] = [NoConnect EXCEPT !.client = c,
                                                         !.pc = "awaitTransport"]]
        /\ tr' = [tr EXCEPT ![c] = createTransport(cfg.kind)]
        /\ mgr' = [mgr EXCEPT !.clients[cfg.id] = c]
        /\ UNCHANGED <<sess, req>>

\* Manager.addServer(config), called from outside.
MgrAddServer(cfg) ==
    /\ ~Runnable /\ ~MgrRunnable
    /\ AddServer(cfg)
    /\ UNCHANGED <<mcall, disc>>

\* Manager.removeServer(id): disconnect() of the Client, clients.delete(id).
MgrRemoveServer(id) ==
    /\ ~MgrRunnable
    /\ mgr.clients[id] # Null
    /\ Disconnect(mgr.clients[id])
    /\ mgr' = [mgr EXCEPT !.clients[id] = Null]
    /\ UNCHANGED <<mcall, disc>>

\* ensureInitialized after discovery.start() resolved: the listener is up,
\* initialized = true; the Manager operation goes on.
DiscoveryStarted(j) ==
    /\ ~Runnable
    /\ mcall[j].pc = "starting"
    /\ disc' = [disc EXCEPT !.listening = TRUE]
    /\ mgr' = [mgr EXCEPT !.initialized = TRUE]
    /\ mcall' = [mcall EXCEPT ![j].pc = "routing"]
    /\ UNCHANGED clientVars

\* POST /announce with the body, to the end of the request handler:
\* JSON.parse, emit('serverFound') (the Manager's handler runs addServer),
\* 200; 400 when JSON.parse throws.
Announce(body) ==
    /\ ~Runnable /\ ~MgrRunnable
    /\ disc.listening
    /\ IF body.parses
       THEN /\ AddServer(ParsedConfig(body))
            /\ disc' = [disc EXCEPT !.status = 200, !.emitted = @ + 1,
                                    !.added = @ \cup {NewClient(1)}]
       ELSE /\ disc' = [disc EXCEPT !.status = 400]
            /\ UNCHANGED <<clientVars, mgr>>
    /\ UNCHANGED mcall

\* Manager.getServerStates() of an initialized Manager: the ids of the
\* states registry.getStates() returns.
getServerStates == {id \in ServerIds : mgr.registry[id] # Null}

\* ------------------------------------------------- one Transport on its own
\* One Transport object driven through its own interface, with what it is
\* attached to.  The text a child writes or a server pushes is a sequence
\* of characters.
NoChannel == [kind |-> "none"]

Chars == {"1", "x", " ", "\n"}
LineChars == Chars \ {"\n"}

RECURSIVE SeqsOver(_, _)
SeqsOver(S, n) ==
    IF n = 0 THEN {<<>>}
    ELSE LET shorter == SeqsOver(S, n - 1)
         IN  shorter \cup {Append(q, ch) : q \in {r \in shorter : Len(r) = n - 1}, ch \in S}

\* What one 'data' event of stdout carries, and what one pushed event or
\* socket frame carries.
Chunks == SeqsOver(Chars, MaxChunk) \ {<<>>}
Frames == SeqsOver(LineChars, MaxFrame)

\* String.prototype.split('\n'): the pieces between the separators, the
\* empty ones included.
RECURSIVE split(_, _)
split(text, sep) ==
    IF \A i \in 1..Len(text) : text[i] # sep THEN <<text>>
    ELSE LET i == CHOOSE k \in 1..Len(text) :
                      text[k] = sep /\ \A m \in 1..(k - 1) : text[m] # sep
         IN  <<SubSeq(text, 1, i - 1)>> \o split(SubSeq(text, i + 1, Len(text)), sep)

\* String.prototype.trim().
RECURSIVE trim(_)
trim(line) ==
    IF line = <<>> THEN line
    ELSE IF line[1] = " " THEN trim(Tail(line))
    ELSE IF line[Len(line)] = " " THEN trim(SubSeq(line, 1, Len(line) - 1))
    ELSE line

RECURSIVE NumberOf(_)
NumberOf(digits) ==
    IF digits = <<>> THEN 0 ELSE 10 * NumberOf(SubSeq(digits, 1, Len(digits) - 1)) + 1

\* JSON.parse(text): white space around the value is skipped; over these
\* characters the JSON values are the numbers written with the digit 1.
\* Anything else throws a SyntaxError (ok = FALSE).
JsonParse(text) ==
    LET body == trim(text)
    IN  IF body # <<>> /\ \A i \in 1..Len(body) : body[i] = "1"
        THEN [ok |-> TRUE, value |-> NumberOf(body)]
        ELSE [ok |-> FALSE, value |-> 0]

\* The loop given up at the first line that does not parse.
RECURSIVE DeliverLines_StopAtInvalid(_)
DeliverLines_StopAtInvalid(lines) ==
    IF lines = <<>> THEN <<>>
    ELSE LET line == Head(lines)
             parsed == JsonParse(line)
         IN  IF trim(line) = <<>> THEN DeliverLines_StopAtInvalid(Tail(lines))
             ELSE IF parsed.ok THEN <<parsed.value>> \o DeliverLines_StopAtInvalid(Tail(lines))
             ELSE <<>>

\* The body of the stdout 'data' handler's loop, for the lines from the
\* i-th on: a line that is blank after trim() is skipped, a line that
\* parses is handed to the handlers, a line that throws in JSON.parse is
\* caught and the loop goes on with the next line.
RECURSIVE DeliverLines(_)
DeliverLines(lines) ==
    IF lines = <<>> THEN <<>>
    ELSE LET line == Head(lines)
             parsed == JsonParse(line)
         IN  IF trim(line) = <<>> THEN DeliverLines(Tail(lines))
             ELSE IF parsed.ok THEN <<parsed.value>> \o DeliverLines(Tail(lines))
             ELSE DeliverLines(Tail(lines))

\* StdioTransport(config) or HttpSseTransport(config, type), not connected.
\* connect is where the connect() call is, connectCode the code its
\* rejection carries: the errors that reject it are the runtime's own and
\* carry none.
\* reach is the world the transport is in: "yes" the command / server is
\* there, "no" it is not (spawn ENOENT, connection refused), "broken" the
\* runtime cannot even construct the channel (the dynamic import rejects,
\* EventSource is not defined).  child, es and ws are the child process,
\* the EventSource and the WebSocket as the runtime sees them.
createChannel(kind, reach) ==
    [kind |-> kind, reach |-> reach,
     connect |-> "idle", connectCode |-> NoCode,
     proc |-> FALSE, child |-> "none",
     eventSource |-> FALSE, es |-> "none",
     ws |-> "none",
     postEndpoint |-> FALSE,
     isConnected |-> FALSE,
     handlers |-> FALSE,
     closes |-> 0,
     sends |-> 0, sendResult |-> "none", transmitted |-> 0,
     reads |-> 0, chunk |-> <<>>, delivered |-> <<>>, dropped |-> FALSE]

\* transport.onMessage(handler): handlers.push(handler).
ChanOnMessage ==
    /\ chan.kind # "none"
    /\ ~chan.handlers
    /\ chan' = [chan EXCEPT !.handlers = TRUE]

\* connect() is called, and runs to its first await or to its end.  The
\* process and the socket transport first await a dynamic import; the
\* streaming one constructs its EventSource and returns; the plain one
\* only records where to post.
ChanConnect ==
    /\ chan.kind # "none"
    /\ chan.connect = "idle"
    /\ chan' =
          CASE chan.kind = "http" ->
                 [chan EXCEPT !.postEndpoint = TRUE, !.isConnected = TRUE,
                              !.connect = "resolved"]
            [] chan.kind = "sse" /\ chan.reach = "broken" ->
                 [chan EXCEPT !.connect = "rejected"]
            [] chan.kind = "sse" /\ chan.reach # "broken" ->
                 [chan EXCEPT !.eventSource = TRUE, !.es = "connecting",
                              !.postEndpoint = TRUE, !.connect = "resolved"]
            [] OTHER -> [chan EXCEPT !.connect = "importing"]

\* The dynamic import settled.  stdio: spawn(), the listeners, isConnected =
\* true; spawn() hands back a child object also for a command that does
\* not exist, whose failure is an 'error' event later.  websocket: new
\* WebSocket kept in a local of connect(), its listeners, postEndpoint.
ChanImported ==
    /\ chan.connect = "importing"
    /\ chan' =
          CASE chan.reach = "broken" -> [chan EXCEPT !.connect = "rejected"]
            [] chan.reach # "broken" /\ chan.kind = "stdio" ->
                 [chan EXCEPT !.proc = TRUE,
                              !.child = IF chan.reach = "yes" THEN "running" ELSE "failing",
                              !.isConnected = TRUE, !.connect = "resolved"]
            [] OTHER ->
                 [chan EXCEPT !.ws = "connecting", !.postEndpoint = TRUE,
                              !.connect = "resolved"]

\* eventSource.onopen / ws.onopen.
ChanOpened ==
    /\ chan.reach = "yes"
    /\ \/ chan.kind = "sse" /\ chan.es = "connecting"
          /\ chan' = [chan EXCEPT !.es = "open", !.isConnected = TRUE]
       \/ chan.kind = "websocket" /\ chan.ws = "connecting"
          /\ chan' = [chan EXCEPT !.ws = "open", !.isConnected = TRUE]

\* The channel breaks.  eventSource.onerror: isConnected = false (the
\* EventSource retries when the server is there).  ws.onerror logs and
\* ws.onclose sets isConnected = false.  The child's 'error' event (spawn
\* failed) only logs.
ChanErrored ==
    \/ /\ chan.kind = "sse" /\ chan.es \in {"connecting", "open"}
       /\ chan' = [chan EXCEPT !.isConnected = FALSE,
                               !.es = IF chan.reach = "yes" THEN "connecting" ELSE "closed"]
    \/ /\ chan.kind = "websocket" /\ chan.ws \in {"connecting", "open"}
       /\ chan' = [chan EXCEPT !.isConnected = FALSE, !.ws = "closed"]
    \/ /\ chan.kind = "stdio" /\ chan.child = "failing"
       /\ chan' = [chan EXCEPT !.child = "failed"]

\* The child's 'close' event: it exited (by itself, killed, or never
\* started) and its streams are closed.
ChanExited ==
    /\ chan.kind = "stdio"
    /\ chan.child \in {"running", "failed", "killed"}
    /\ chan' = [chan EXCEPT !.child = "exited", !.isConnected = FALSE]

\* send(message).  stdio: throws without a proc, otherwise writes to
\* proc.stdin, which reaches the child only while it runs; the write to the
\* stream of a child that is gone raises nothing in send().  The others:
\* throw without a postEndpoint, otherwise POST; fetch rejects when the
\* server is not there, and a status that is not ok is thrown.
ChanSend(ok) ==
    /\ chan.kind # "none"
    /\ chan.sends < MaxSends
    /\ chan' =
          IF chan.kind = "stdio"
          THEN IF ~chan.proc
               THEN [chan EXCEPT !.sends = @ + 1, !.sendResult = "threw"]
               ELSE [chan EXCEPT !.sends = @ + 1, !.sendResult = "ok",
                                 !.transmitted = IF chan.child = "running" THEN @ + 1 ELSE @]
          ELSE IF ~chan.postEndpoint \/ chan.reach # "yes"
               THEN [chan EXCEPT !.sends = @ + 1, !.sendResult = "threw"]
               ELSE [chan EXCEPT !.sends = @ + 1,
                                 !.sendResult = IF ok THEN "ok" ELSE "threw",
                                 !.transmitted = @ + 1]

\* close().  stdio: stdin.end(), kill(), proc = null.  The others:
\* abortController is never set; an EventSource is closed and dropped; the
\* WebSocket is out of reach of close(); postEndpoint stays.
ChanClose ==
    /\ chan.kind # "none"
    /\ chan.closes < MaxCloses
    /\ chan' =
          IF chan.kind = "stdio"
          THEN [chan EXCEPT !.closes = @ + 1, !.proc = FALSE, !.isConnected = FALSE,
                            !.child = IF chan.proc /\ @ = "running" THEN "killed" ELSE @]
          ELSE [chan EXCEPT !.closes = @ + 1, !.eventSource = FALSE, !.isConnected = FALSE,
                            !.es = IF chan.eventSource THEN "closed" ELSE @]

\* One 'data' event of the child's stdout: decoder.decode(data) (the
\* characters here are all one byte long), split('\n'), the loop.
ChanStdout(data) ==
    LET lines == split(data, "\n")
    IN  /\ chan.kind = "stdio"
        /\ chan.child = "running"
        /\ chan.reads < MaxReads
        /\ chan' = [chan EXCEPT
                      !.reads = @ + 1,
                      !.chunk = data,
                      !.delivered = IF chan.handlers THEN DeliverLines(lines) ELSE <<>>,
                      !.dropped = @ \/ \E i \in 1..Len(lines) :
                                          trim(lines[i]) # <<>> /\ ~JsonParse(lines[i]).ok]

\* eventSource.onmessage / ws.onmessage with event.data = frame.  The
\* streaming handler parses only data that is not the empty string and
\* hands on only a value that is truthy.
ChanPushed(frame) ==
    LET parsed == JsonParse(frame)
        hands == IF chan.kind = "sse"
                 THEN frame # <<>> /\ parsed.ok /\ parsed.value # 0
                 ELSE parsed.ok
    IN  /\ \/ chan.kind = "sse" /\ chan.es = "open"
           \/ chan.kind = "websocket" /\ chan.ws = "open"
        /\ chan.reads < MaxReads
        /\ chan' = [chan EXCEPT
                      !.reads = @ + 1,
                      !.chunk = frame,
                      !.delivered = IF chan.handlers /\ hands THEN <<parsed.value>> ELSE <<>>,
                      !.dropped = @ \/ (frame # <<>> /\ ~parsed.ok)]

\* ----------------------------------------- one Session, identifiers drawn
\* A Session whose identifiers are what createId() returns: two draws of
\* Math.random() printed in base 36.  Nothing compares a draw with the
\* identifiers drawn before it, so a draw is a choice from the identifier
\* space; IdStrings stands for that space.
NoRpc == [made |-> FALSE]

IdStrings == 1..MaxIdStrings
RpcCalls == 1..MaxRequests

NoRpcCall == [id |-> NoId, promise |-> "none", timer |-> FALSE, value |-> NoId]

\* createSession(transport): an empty pendingRequests map.  pending[id] is
\* the request() call whose resolve and reject the map holds under id.
createRpcSession ==
    [made |-> TRUE,
     pendingRequests |-> [id \in IdStrings |-> NoId],
     call |-> [n \in RpcCalls |-> NoRpcCall],
     sent |-> <<>>]

RpcIssued == {rpc.call[n].id : n \in {m \in RpcCalls : rpc.call[m].promise # "none"}}

\* session.request(): id = createId(), setTimeout, pendingRequests.set(id,
\* ...) which replaces whatever the map held under id, transport.send.
RpcRequest(n, id) ==
    /\ rpc.made
    /\ rpc.call[n].promise = "none"
    /\ \A m \in RpcCalls : m < n => rpc.call[m].promise # "none"
    /\ rpc' = [rpc EXCEPT !.call[n] = [id |-> id, promise |-> "pending",
                                       timer |-> TRUE, value |-> NoId],
                          !.pendingRequests[id] = n,
                          !.sent = Append(@, id)]

\* handleMessage of a response carrying id: the entry the map holds under
\* id is settled (its resolve clears its own timer, its reject does not)
\* and the entry is deleted.  No entry: the message is ignored.
RpcReceive(id, isError) ==
    LET n == rpc.pendingRequests[id]
    IN  /\ rpc.made
        /\ rpc.sent # <<>>
        /\ rpc' = IF n = NoId THEN rpc
                  ELSE [rpc EXCEPT
                          !.pendingRequests[id] = NoId,
                          !.call[n].timer = IF isError THEN @ ELSE FALSE,
                          !.call[n].promise = IF @ # "pending" THEN @
                                              ELSE IF isError THEN "rejected"
                                              ELSE "resolved",
                          !.call[n].value = IF rpc.call[n].promise = "pending" /\ ~isError
                                            THEN id ELSE @]

\* The timer of call n: pendingRequests.delete(id) of the id the call drew,
\* whoever's entry the map holds under it now, then reject.
RpcTimeout(n) ==
    /\ rpc.made
    /\ rpc.call[n].timer
    /\ rpc' = [rpc EXCEPT
                 !.pendingRequests[rpc.call[n].id] = NoId,
                 !.call[n].timer = FALSE,
                 !.call[n].promise = IF @ = "pending" THEN "rejected" ELSE @]

\* --------------------------------------------------- the agent's tools
\* Protocol ToolDescriptors (McpTool): the name is its pieces between
\* underscores, the description is its words, absent where the server
\* sent none; inputSchema.required is a list of parameter names or absent.
ToolNames == {<<"read">>, <<"read", "file">>}
Descriptions == {[present |-> FALSE, text |-> <<>>],
                 [present |-> TRUE, text |-> <<>>],
                 [present |-> TRUE, text |-> <<"reads">>]}
RequiredLists == {[present |-> FALSE, names |-> {}],
                  [present |-> TRUE, names |-> {}],
                  [present |-> TRUE, names |-> {"path"}]}
Descriptors == [name : ToolNames, description : Descriptions, required : RequiredLists]

\* `${x}` of a description: an absent one prints as the word undefined.
TemplateText(description) ==
    IF description.present THEN description.text ELSE <<"undefined">>

\* x || '' and x || [].
OrEmptyText(description) == IF description.present THEN description.text ELSE <<>>
OrEmptyList(required) == IF required.present THEN required.names ELSE {}

\* createToolConverter().toLoomosTool(mcpTool, serverId).
toLoomosTool(d, serverId) ==
    [name |-> toLoomosToolName(serverId, d.name),
     description |-> <<"[">> \o serverId \o <<"]", " ">> \o TemplateText(d.description),
     required |-> OrEmptyList(d.required)]

\* convertMCPToolToTool(mcpTool, serverName) of the agent's adapter.
convertMCPToolToTool(d, serverName) ==
    [name |-> serverName \o d.name,
     description |-> OrEmptyText(d.description),
     required |-> OrEmptyList(d.required)]

\* toolName.split('_').slice(1).join('_'): the name the agent sends to the
\* server for a Tool.
StripServerId(name) == Tail(name)

\* The descriptor read back from a Tool: the stripped name, the Tool's
\* description and required list.
BackToDescriptor(tool) ==
    [name |-> StripServerId(tool.name),
     description |-> tool.description,
     required |-> tool.required]

NoTool == [name |-> <<>>, description |-> <<>>, required |-> {}]

\* One descriptor of one server, to be converted.
ConvertJob(d, serverId) ==
    [unit |-> "convert", d |-> d, serverId |-> serverId, via |-> "none",
     tool |-> NoTool, back |-> NoTool]

Convert(via) ==
    /\ agent.unit = "convert" /\ agent.via = "none"
    /\ agent' = [agent EXCEPT
                   !.via = via,
                   !.tool = IF via = "converter" THEN toLoomosTool(agent.d, agent.serverId)
                            ELSE convertMCPToolToTool(agent.d, agent.serverId)]

ConvertBack ==
    /\ agent.unit = "convert" /\ agent.via # "none" /\ agent.back = NoTool
    /\ agent' = [agent EXCEPT !.back = BackToDescriptor(agent.tool)]

\* ------------------------------------------------ the agent's tool calls
\* The result of tools/call as the server sent it: isError and the content
\* items, each a text item (with or without text) or an image.
ContentItems == {[type |-> "text", text |-> <<"oops">>],
                 [type |-> "text", text |-> <<>>],
                 [type |-> "image", text |-> <<>>]}
ToolCallResults == [isError : BOOLEAN, content : SeqsOver(ContentItems, MaxContent)]

\* What one content item becomes on each path: toLoomosResult,
\* createMcpToolHandler, extractMCPToolContent.
ItemText(path, c) ==
    CASE path = "toLoomosResult" ->
           IF c.type = "text" THEN c.text ELSE <<"[Image: ", "...]">>
      [] path = "createMcpToolHandler" ->
           IF c.type = "text" THEN c.text ELSE <<"[", c.type, "]">>
      [] OTHER ->
           IF c.type = "text" /\ c.text # <<>> THEN c.text ELSE <<"JSON", c.type>>

\* .map(...).filter(Boolean).join('\n').
RECURSIVE Flatten(_, _)
Flatten(path, content) ==
    IF content = <<>> THEN <<>>
    ELSE LET piece == ItemText(path, Head(content))
             rest == Flatten(path, Tail(content))
         IN  IF piece = <<>> THEN rest
             ELSE IF rest = <<>> THEN piece
             ELSE piece \o <<"\n">> \o rest

NoText == [present |-> FALSE, text |-> <<>>]
SomeText(text) == [present |-> TRUE, text |-> text]

\* createToolConverter().toLoomosResult(result).
toLoomosResult(result) ==
    LET textContent == Flatten("toLoomosResult", result.content)
    IN  [success |-> ~result.isError,
         content |-> IF textContent # <<>> THEN textContent
                     ELSE IF result.isError THEN <<"Tool call returned error">>
                     ELSE <<"No content">>,
         error |-> IF result.isError THEN SomeText(textContent) ELSE NoText]

\* The handler createMcpToolHandler returns, on the result of
\* manager.callTool.
McpToolHandlerResult(result) ==
    LET textContent == Flatten("createMcpToolHandler", result.content)
    IN  [success |-> ~result.isError,
         content |-> IF textContent # <<>> THEN textContent ELSE <<"No content">>,
         error |-> IF result.isError THEN SomeText(textContent) ELSE NoText]

\* The agent's MCPClient.callTool: { content: result.content }.
AgentCallTool(result) == [content |-> result.content]

\* The handler getMCPToolHandler returns, on what mcpClient.callTool gave.
GetMCPToolHandlerResult(callResult) ==
    [success |-> TRUE,
     content |-> Flatten("extractMCPToolContent", callResult.content),
     error |-> NoText]

\* The catch of either handler: a failed ToolResult with the message.
HandlerCaught == [success |-> FALSE, content |-> <<>>, error |-> SomeText(<<"message">>)]

ToolPaths == {"toLoomosResult", "createMcpToolHandler", "getMCPToolHandler"}

NoToolResult == [success |-> FALSE, content |-> <<>>, error |-> NoText]

\* One tools/call round: the server's result (or the call's rejection,
\* thrown = TRUE), the path it takes to the agent, what the agent gets.
ToolCallJob(result, thrown) ==
    [unit |-> "toolcall", result |-> result, thrown |-> thrown, path |-> "none",
     outcome |-> "none", toolResult |-> NoToolResult]

\* The agent invokes the tool through one of the paths.  toLoomosResult is
\* a plain conversion: a rejected call never reaches it and goes on as the
\* exception it is.
InvokeTool(path) ==
    /\ agent.unit = "toolcall" /\ agent.path = "none"
    /\ agent' =
          IF agent.thrown
          THEN [agent EXCEPT
                  !.path = path,
                  !.outcome = IF path = "toLoomosResult" THEN "thrown" ELSE "returned",
                  !.toolResult = IF path = "toLoomosResult" THEN NoToolResult
                                 ELSE HandlerCaught]
          ELSE [agent EXCEPT
                  !.path = path,
                  !.outcome = "returned",
                  !.toolResult =
                      CASE path = "toLoomosResult" -> toLoomosResult(agent.result)
                        [] path = "createMcpToolHandler" -> McpToolHandlerResult(agent.result)
                        [] OTHER -> GetMCPToolHandlerResult(AgentCallTool(agent.result))]

\* --------------------------------------------- the agent's isolated Client
\* createIsolatedMCPClient(config, userId) after getIsolatedMCPClient has
\* connected and cached it.  connected: client and transport are set.
\* intervalId is the closure variable (NoTimer for null), entry what the
\* module's syncIntervals map holds for the user, timers the intervals the
\* runtime has running.  inFlight counts the syncToDatabase runs that
\* await saveUserSession; saved and logged count how they ended.  call is
\* the one callTool of the agent; cleanup is where cleanupIsolatedMCPClient
\* stands, teardownSaves the syncs it has awaited.
NoTimer == 0
TimerIds == 1..MaxStarts

IsolatedClient ==
    [unit |-> "isolated", connected |-> TRUE,
     intervalId |-> NoTimer, entry |-> NoTimer, timers |-> {},
     starts |-> 0, stops |-> 0, syncs |-> 0,
     inFlight |-> 0, saved |-> 0, logged |-> 0, uncaught |-> FALSE,
     call |-> "none", failedDuringCall |-> FALSE,
     cleanup |-> "none", teardownSaves |-> 0]

\* stopPeriodicSync(): clearInterval(intervalId) when it is set, and the
\* user's entry of syncIntervals is deleted.
StoppedSync(a) ==
    [a EXCEPT !.timers = IF a.intervalId # NoTimer THEN @ \ {a.intervalId} ELSE @,
              !.intervalId = NoTimer,
              !.entry = NoTimer]

\* The part of startPeriodicSync before setInterval.
BeforeNewTimer_Keep(a) == a

BeforeNewTimer(a) == StoppedSync(a)

\* startPeriodicSync() with the configured interval: nothing for an
\* interval that is not positive; otherwise stopPeriodicSync(), a new
\* interval, recorded in intervalId and in syncIntervals.
StartPeriodicSync(syncIntervalMs) ==
    LET id == agent.starts + 1
        b == BeforeNewTimer(agent)
    IN  /\ agent.unit = "isolated"
        /\ agent.starts < MaxStarts
        /\ agent' = IF syncIntervalMs <= 0 THEN agent
                    ELSE [b EXCEPT !.timers = @ \cup {id}, !.intervalId = id,
                                   !.entry = id, !.starts = id]

StopPeriodicSync ==
    /\ agent.unit = "isolated"
    /\ agent.stops < MaxStops
    /\ agent' = [StoppedSync(agent) EXCEPT !.stops = @ + 1]

\* stopAllSyncIntervals(): every interval in syncIntervals is cleared and
\* the map emptied; the Client's intervalId is not reset.
StopAllSyncIntervals ==
    /\ agent.unit = "isolated"
    /\ agent.entry # NoTimer
    /\ agent' = [agent EXCEPT !.timers = @ \ {agent.entry}, !.entry = NoTimer]

\* An interval fires: syncToDatabase() is called and not awaited; it reads
\* the storage state and awaits saveUserSession.
SyncTick(t) ==
    /\ agent.unit = "isolated"
    /\ t \in agent.timers
    /\ agent.syncs < MaxSyncs
    /\ agent' = [agent EXCEPT !.syncs = @ + 1, !.inFlight = @ + 1]

\* The catch of syncToDatabase: console.error.
SyncFailed_Propagates(a) ==
    [a EXCEPT !.logged = @ + 1, !.uncaught = TRUE, !.timers = {},
              !.call = IF @ = "pending" THEN "rejected" ELSE @]

SyncFailed(a) ==
    [a EXCEPT !.logged = @ + 1, !.failedDuringCall = @ \/ a.call = "pending"]

\* saveUserSession settles for a run the interval started.
SyncSettled(ok) ==
    /\ agent.unit = "isolated"
    /\ agent.inFlight > 0
    /\ agent' = IF ok THEN [agent EXCEPT !.inFlight = @ - 1, !.saved = @ + 1]
                ELSE SyncFailed([agent EXCEPT !.inFlight = @ - 1])

\* callTool(name, args): throws without a client, otherwise the request
\* is sent and awaited.
IsoCallTool ==
    /\ agent.unit = "isolated"
    /\ agent.call = "none"
    /\ agent' = [agent EXCEPT !.call = IF agent.connected THEN "pending" ELSE "rejected"]

\* The server answers the tools/call request.
IsoCallAnswered ==
    /\ agent.unit = "isolated"
    /\ agent.call = "pending"
    /\ agent' = [agent EXCEPT !.call = "resolved"]

\* disconnect(): with a transport, transport.close() and both set to null;
\* the request in flight ends with the connection.
IsoDisconnected(a) ==
    IF a.connected
    THEN [a EXCEPT !.connected = FALSE,
                   !.call = IF @ = "pending" THEN "rejected" ELSE @]
    ELSE a

IsoDisconnect ==
    /\ agent.unit = "isolated"
    /\ agent.connected
    /\ agent.cleanup # "saving"
    /\ agent' = IsoDisconnected(agent)

\* cleanupIsolatedMCPClient(userId) up to its first await: the cached
\* Client's syncToDatabase().
CleanupStart ==
    /\ agent.unit = "isolated"
    /\ agent.cleanup = "none"
    /\ agent.connected
    /\ agent' = [agent EXCEPT !.cleanup = "saving"]

\* That sync settled (a failure is logged inside it): stopPeriodicSync(),
\* disconnect(), the cache entry deleted.
CleanupSaved(ok) ==
    LET a == IF ok THEN [agent EXCEPT !.saved = @ + 1] ELSE SyncFailed(agent)
    IN  /\ agent.unit = "isolated"
        /\ agent.cleanup = "saving"
        /\ agent' = [IsoDisconnected(StoppedSync(a)) EXCEPT
                        !.cleanup = "done", !.teardownSaves = @ + 1]

\* ------------------------------------------------ the agent's client caches
\* agent (unit "cache"): sharedClientCache (by config.name) and
\* isolatedClientCache (by userId), the clients created so far in the order
\* of creation (Null in a cache: no entry), and the get calls.  A shared
\* client has no user.
ServerNames == {"playwright", "files"}
UserIds == {"u1", "u2"}
NoUser == "none"
Gets == 1..MaxGets

NoGet == [pc |-> "unused", variant |-> "none", server |-> "", user |-> NoUser, client |-> Null]

ClientCaches ==
    [unit |-> "cache",
     shared |-> [n \in ServerNames |-> Null],
     isolated |-> [u \in UserIds |-> Null],
     made |-> <<>>,
     gets |-> [g \in Gets |-> NoGet]]

\* The cache a variant reads and its key: config.name for getMCPClient,
\* userId for getIsolatedMCPClient.
CacheKey(variant, server, user) == IF variant = "shared" THEN <<server>> ELSE <<user>>

\* Map.get on the variant's cache.
CacheGet(a, variant, server, user) ==
    IF variant = "shared" THEN a.shared[server] ELSE a.isolated[user]

\* getMCPClient(config) / getIsolatedMCPClient(config, userId) to its first
\* await or its return: a cached client is returned; otherwise the client
\* is created and connect() is awaited.
GetClient(variant, server, user) ==
    /\ agent.unit = "cache"
    /\ \E g \in Gets :
        /\ agent.gets[g].pc = "unused"
        /\ \A h \in Gets : agent.gets[h].pc = "unused" => g <= h
        /\ LET cached == CacheGet(agent, variant, server, user)
               call == [NoGet EXCEPT !.variant = variant, !.server = server, !.user = user]
           IN  IF cached # Null
               THEN agent' = [agent EXCEPT !.gets[g] =
                                 [call EXCEPT !.pc = "returned", !.client = cached]]
               ELSE agent' = [agent EXCEPT
                                 !.made = Append(@, [variant |-> variant, server |-> server,
                                                     user |-> user, connected |-> FALSE]),
                                 !.gets[g] = [call EXCEPT !.pc = "connecting",
                                                          !.client = Len(agent.made) + 1]]

\* After await client.connect(): cache.set(key, client), return client.  A
\* connect() that throws ends the call with nothing cached.
CacheSet(a, get) ==
    IF get.variant = "shared" THEN [a EXCEPT !.shared[get.server] = get.client]
    ELSE [a EXCEPT !.isolated[get.user] = get.client]

GetConnected(g, ok) ==
    /\ agent.unit = "cache"
    /\ agent.gets[g].pc = "connecting"
    /\ IF ok
       THEN agent' = [CacheSet(agent, agent.gets[g]) EXCEPT
                         !.made[agent.gets[g].client].connected = TRUE,
                         !.gets[g].pc = "returned"]
       ELSE agent' = [agent EXCEPT !.gets[g].pc = "failed", !.gets[g].client = Null]

\* ---------------------------------------------------------- the task queue
\* db (unit "queue"): the TaskQueue table and the calls made on it.  The
\* repository holds two copies of task-queue (task-queue.ts and the copy
\* that exports createTaskForQueue, which gateway and scheduler import);
\* copy says which one is built, provider which claimTask branch runs.
\* startedAt is kept by its relation to the stale threshold: "null",
\* "fresh" (after it), "stale" (before it).  held: the tasks a claimTask
\* returned that recoverStaleTasks has not reset since.
TaskIds == 1..MaxTasks
WorkerIds == {"w1", "w2"}
QueueCopies == {"task-queue.ts", "createTaskForQueue"}
Providers == {"sqlite", "postgresql"}
Priorities == {0, 1}
AttemptLimits == {1, 2}

NoWorker == "null"

NoTask ==
    [made |-> FALSE, status |-> "none", workerId |-> NoWorker, startedAt |-> "null",
     attempts |-> 0, maxAttempts |-> 0, priority |-> 0]

NoRow == [id |-> Null, status |-> "none", workerId |-> NoWorker, attempts |-> 0]

TaskQueueTable(copy, provider) ==
    [unit |-> "queue", copy |-> copy, provider |-> provider,
     tasks |-> [t \in TaskIds |-> NoTask], claims |-> 0, returned |-> NoRow,
     held |-> {}]

\* prisma.taskQueue.create of createTask / createTaskForQueue.
createTaskForQueue(priority, maxAttempts) ==
    /\ db.unit = "queue"
    /\ \E t \in TaskIds :
        /\ ~db.tasks[t].made
        /\ \A u \in TaskIds : ~db.tasks[u].made => t <= u
        /\ db' = [db EXCEPT !.tasks[t] = [NoTask EXCEPT !.made = TRUE, !.status = "pending",
                                                        !.priority = priority,
                                                        !.maxAttempts = maxAttempts]]

\* The row both claimTask branches select: status 'pending', ORDER BY
\* priority DESC, createdAt ASC, one row (rows are numbered as created).
PendingTasks(tasks) == {t \in TaskIds : tasks[t].made /\ tasks[t].status = "pending"}

FirstPending(tasks) ==
    CHOOSE t \in PendingTasks(tasks) :
        \A u \in PendingTasks(tasks) :
            \/ tasks[t].priority > tasks[u].priority
            \/ tasks[t].priority = tasks[u].priority /\ t <= u

\* The status the claim writes: 'processing' in claimTaskSQLite of both
\* copies and in claimTaskPostgreSQL of task-queue.ts; the other copy's
\* claimTaskPostgreSQL has SET status = ${TASK_STATUS.PENDING}.
ClaimedStatus(copy, provider) ==
    IF provider = "postgresql" /\ copy = "createTaskForQueue" THEN "pending"
    ELSE "processing"

\* claimTask(workerId).  The SQLite transaction (SQLite serialises
\* transactions that write) and the single PostgreSQL statement each act
\* at once: select, then status, workerId, startedAt = now, attempts + 1.
claimTask(workerId) ==
    /\ db.unit = "queue"
    /\ db.claims < MaxClaims
    /\ IF PendingTasks(db.tasks) = {}
       THEN db' = [db EXCEPT !.claims = @ + 1, !.returned = NoRow]
       ELSE LET t == FirstPending(db.tasks)
                row == [db.tasks[t] EXCEPT !.status = ClaimedStatus(db.copy, db.provider),
                                           !.workerId = workerId, !.startedAt = "fresh",
                                           !.attempts = @ + 1]
            IN  db' = [db EXCEPT !.claims = @ + 1, !.tasks[t] = row,
                                 !.returned = [id |-> t, status |-> row.status,
                                               workerId |-> row.workerId,
                                               attempts |-> row.attempts],
                                 !.held = @ \cup {t}]

\* completeTask(taskId, success): the worker that was handed the task calls
\* it when the agent run ends; the update is by id alone.
completeTask(taskId, success) ==
    /\ db.unit = "queue"
    /\ taskId \in db.held
    /\ db.tasks[taskId].status \notin {"completed", "failed"}
    /\ db' = [db EXCEPT !.tasks[taskId].status = IF success THEN "completed" ELSE "failed"]

\* Time passes: a claimed task's startedAt falls behind the stale threshold.
TaskAges(t) ==
    /\ db.unit = "queue"
    /\ db.tasks[t].startedAt = "fresh"
    /\ db' = [db EXCEPT !.tasks[t].startedAt = "stale"]

\* recoverStaleTasks: updateMany over status 'processing' with startedAt
\* before the threshold: status 'pending', workerId and startedAt null.
StaleTasks(tasks) ==
    {t \in TaskIds : tasks[t].made /\ tasks[t].status = "processing"
                     /\ tasks[t].startedAt = "stale"}

recoverStaleTasks ==
    /\ db.unit = "queue"
    /\ StaleTasks(db.tasks) # {}
    /\ db' = [db EXCEPT
                !.tasks = [t \in TaskIds |->
                             IF t \in StaleTasks(db.tasks)
                             THEN [db.tasks[t] EXCEPT !.status = "pending",
                                                      !.workerId = NoWorker,
                                                      !.startedAt = "null"]
                             ELSE db.tasks[t]],
                !.held = @ \ StaleTasks(db.tasks)]

\* ---------------------------------------------------------- the worker pool
\* db (unit "pool"): state of createWorkerPool (running, workers: name ->
\* busy, pollIntervalId), the worker loops start() has launched (a loop of
\* the s-th start for worker-i is loop (s - 1) * concurrency + i), each at
\* its await, the stop() call, and the number of pending tasks in the
\* queue.  quiescent: stop() has resolved and start() was not called since.
WorkerNames == 1..MaxWorkers
Loops == 1..(MaxWorkers * MaxPoolStarts)

NameOf(loop) == ((loop - 1) % MaxWorkers) + 1

createWorkerPool ==
    [unit |-> "pool", running |-> FALSE, pollInterval |-> FALSE,
     workers |-> [n \in WorkerNames |-> "unset"],
     loops |-> [l \in Loops |-> "none"],
     starts |-> 0, start |-> "idle", stop |-> "idle",
     pending |-> 0, quiescent |-> FALSE]

\* A task is put in the queue.
TaskQueued ==
    /\ db.unit = "pool"
    /\ db.pending < MaxPending
    /\ db' = [db EXCEPT !.pending = @ + 1]

\* workerLoop at the head of its while: claimTask is called when
\* state.running, the loop ends otherwise.
LoopHead(p) == IF p.running THEN "claiming" ELSE "ended"

\* start(): nothing when running; running = true, then the await of
\* recoverStaleTasks.
PoolStart ==
    /\ db.unit = "pool"
    /\ db.start = "idle"
    /\ db.starts < MaxPoolStarts
    /\ IF db.running THEN db' = db
       ELSE db' = [db EXCEPT !.running = TRUE, !.start = "recovering", !.starts = @ + 1,
                             !.quiescent = FALSE]

\* start() after recoverStaleTasks: every worker is set idle and its loop
\* is called (it runs to its first await), then the recovery timer is set.
PoolStartRecovered ==
    /\ db.unit = "pool"
    /\ db.start = "recovering"
    /\ db' = [db EXCEPT
                !.start = "idle",
                !.workers = [n \in WorkerNames |-> "idle"],
                !.loops = [l \in Loops |->
                             IF (db.starts - 1) * MaxWorkers < l /\ l <= db.starts * MaxWorkers
                             THEN LoopHead(db) ELSE db.loops[l]],
                !.pollInterval = TRUE]

\* The loop after await claimTask(workerId): no task: sleep; a task: the
\* worker is set busy and processTask is awaited.  state.running is not
\* read here.
AfterClaim(p, l, task) ==
    IF task THEN [p EXCEPT !.loops[l] = "processing", !.workers[NameOf(l)] = "busy",
                           !.pending = @ - 1]
    ELSE [p EXCEPT !.loops[l] = "sleeping"]

ClaimReturned(l) ==
    /\ db.unit = "pool"
    /\ db.loops[l] = "claiming"
    /\ db' = AfterClaim(db, l, db.pending > 0)

\* claimTask threw: the catch block sleeps.
ClaimThrew(l) ==
    /\ db.unit = "pool"
    /\ db.loops[l] = "claiming"
    /\ db' = [db EXCEPT !.loops[l] = "sleeping"]

\* The sleep is over: back to the head of the while.
LoopWoke(l) ==
    /\ db.unit = "pool"
    /\ db.loops[l] = "sleeping"
    /\ db' = [db EXCEPT !.loops[l] = LoopHead(db)]

\* processTask returned (it catches its own errors): the worker is set
\* idle, back to the head of the while.
TaskProcessed(l) ==
    /\ db.unit = "pool"
    /\ db.loops[l] = "processing"
    /\ db' = [db EXCEPT !.workers[NameOf(l)] = "idle", !.loops[l] = LoopHead(db)]

\* stop(): running = false, the recovery timer cleared, then the promise
\* that a 100 ms timer resolves once no worker is busy.
PoolStop ==
    /\ db.unit = "pool"
    /\ db.stop \in {"idle", "resolved"}
    /\ db' = [db EXCEPT !.running = FALSE, !.pollInterval = FALSE, !.stop = "waiting"]

PoolStopCheck ==
    /\ db.unit = "pool"
    /\ db.stop = "waiting"
    /\ \A n \in WorkerNames : db.workers[n] # "busy"
    /\ db' = [db EXCEPT !.stop = "resolved", !.quiescent = db.start = "idle" /\ ~db.running]

\* ------------------------------------------------------------ the scheduler
\* db (unit "scheduler"): the scheduler's state (running, intervalId), the
\* scheduledJob table, the clock, the due jobs a checkAndProcessJobs call
\* in progress has still to process (one call at a time), and the tasks
\* enqueued so far, each with the nextRunAt its job had, and how many of
\* them have run.
JobIds == 1..MaxJobs
RetryLimits == {1, 2}

\* cronParser's interval.next(): the first run time after now.
calculateNextRun(now) == ((now \div CronPeriod) + 1) * CronPeriod

\* createScheduledJob at time 0: a one-time job runs at runAt, a cron job
\* at the next run time of its expression.
createScheduledJob(oneTime, runAt, maxRetries) ==
    [oneTime |-> oneTime, enabled |-> TRUE,
     nextRunAt |-> IF oneTime THEN runAt ELSE calculateNextRun(0),
     retryCount |-> 0, maxRetries |-> maxRetries, lastStatus |-> "null"]

JobRows ==
    {createScheduledJob(o, r, m) : o \in BOOLEAN, r \in {0, 1}, m \in RetryLimits}

\* The sequences of the jobs of set S ordered by nextRunAt.
RECURSIVE ByNextRunAt(_, _)
ByNextRunAt(jobs, S) ==
    IF S = {} THEN {<<>>}
    ELSE UNION {{<<j>> \o rest : rest \in ByNextRunAt(jobs, S \ {j})} :
                j \in {k \in S : \A other \in S : jobs[k].nextRunAt <= jobs[other].nextRunAt}}

getDueJobs(s) ==
    ByNextRunAt(s.jobs, {j \in JobIds : s.jobs[j].enabled /\ s.jobs[j].nextRunAt <= s.now})

updateJobAfterExecution(s, id, success) ==
    LET job == s.jobs[id]
        status == IF success THEN "success" ELSE "failed"
    IN IF job.oneTime
       THEN [s EXCEPT !.jobs[id].lastStatus = status, !.jobs[id].enabled = FALSE]
       ELSE IF success
       THEN [s EXCEPT !.jobs[id].lastStatus = "success", !.jobs[id].retryCount = 0,
                      !.jobs[id].nextRunAt = calculateNextRun(s.now),
                      !.jobs[id].enabled = TRUE]
       ELSE IF job.retryCount + 1 >= job.maxRetries
       THEN [s EXCEPT !.jobs[id].lastStatus = "failed", !.jobs[id].retryCount = @ + 1,
                      !.jobs[id].enabled = FALSE]
       ELSE [s EXCEPT !.jobs[id].lastStatus = "failed", !.jobs[id].retryCount = @ + 1,
                      !.jobs[id].nextRunAt = s.now + RetryDelay]

\* The clock advances.
ClockTick ==
    /\ db.unit = "scheduler"
    /\ db.now < MaxNow
    /\ db' = [db EXCEPT !.now = @ + 1]

\* The end of the first checkAndProcessJobs of startScheduler: the timer is
\* set.
AfterPoll(s) ==
    IF s.due = <<>> /\ s.starting THEN [s EXCEPT !.starting = FALSE, !.intervalId = TRUE]
    ELSE s

\* startScheduler: nothing when running; running = true and the first
\* checkAndProcessJobs up to its await of processScheduledJob.
startScheduler ==
    /\ db.unit = "scheduler"
    /\ ~db.running
    /\ db.due = <<>> /\ ~db.starting
    /\ \E due \in getDueJobs(db) :
         db' = AfterPoll([db EXCEPT !.running = TRUE, !.starting = TRUE, !.due = due])

\* stopScheduler: nothing when not running; the timer is cleared.
stopScheduler ==
    /\ db.unit = "scheduler"
    /\ db.running
    /\ db' = [db EXCEPT !.running = FALSE, !.intervalId = FALSE]

\* The timer calls checkAndProcessJobs: nothing when not running.
checkAndProcessJobs ==
    /\ db.unit = "scheduler"
    /\ db.intervalId
    /\ db.due = <<>>
    /\ IF ~db.running THEN db' = db
       ELSE \E due \in getDueJobs(db) : db' = [db EXCEPT !.due = due]

\* processScheduledJob, saveTaskRecord and createTaskForQueue succeeded:
\* the task is in the queue, the job's row is not written.
processScheduledJob(s, job) ==
    [s EXCEPT !.enqueued = Append(@, [job |-> job, nextRunAt |-> s.jobs[job].nextRunAt])]

JobEnqueued ==
    /\ db.unit = "scheduler"
    /\ db.due # <<>>
    /\ Len(db.enqueued) < MaxEnqueues
    /\ db' = AfterPoll([processScheduledJob(db, Head(db.due)) EXCEPT !.due = Tail(db.due)])

\* processScheduledJob, saveTaskRecord or createTaskForQueue threw: the
\* catch block records the failure.
JobEnqueueFailed ==
    /\ db.unit = "scheduler"
    /\ db.due # <<>>
    /\ db' = AfterPoll([updateJobAfterExecution(db, Head(db.due), FALSE)
                          EXCEPT !.due = Tail(db.due)])

\* markJobCompleted for the job of the next enqueued task that has run.
markJobCompleted(jobId, success) ==
    /\ db.unit = "scheduler"
    /\ db.completed < Len(db.enqueued)
    /\ db.enqueued[db.completed + 1].job = jobId
    /\ db' = [updateJobAfterExecution(db, jobId, success) EXCEPT !.completed = @ + 1]

\* ------------------------------------------------- the Client on its own
Clients == {1}

Init ==
    /\ \E kind \in ConfigKinds :
          client = [c \in AllClients |->
                      IF c \in Clients THEN createMcpClient(<<"fs">>, kind) ELSE NoClient]
    /\ tr = [t \in Conns |-> NoTransport]
    /\ sess = [s \in Conns |-> NoSession]
    /\ req = [i \in Ids |-> NoRequest]
    /\ conn = [k \in Conns |-> NoConnect]
    /\ mgr = createMcpManager(<<>>)
    /\ mcall = [j \in Calls |-> NoCall]
    /\ disc = NoDiscovery /\ chan = NoChannel /\ rpc = NoRpc /\ agent = NoAgent /\ db = NoDb /\ pipe = NoPipe

MsgIds == IssuedIds \cup {UnknownId}

ConnectsCalled == Cardinality({k \in Conns : conn[k].pc # "unused"})

CallsMade == Cardinality({i \in Ids : req[i].method = "tools/call"})

Next ==
    \/ \E c \in Clients : ConnectsCalled < MaxConnects /\ ConnectCall(c) /\ UNCHANGED envVars
    \/ \E k \in Conns : TransportConnectFail(k) /\ UNCHANGED envVars
    \/ \E k \in Conns : TransportConnectDone(k) /\ UNCHANGED envVars
    \/ \E k \in Conns : ConnectAfterInit(k) /\ UNCHANGED envVars
    \/ \E k \in Conns : ConnectAfterList(k) /\ UNCHANGED envVars
    \/ \E c \in Clients : Disconnect(c) /\ UNCHANGED envVars
    \/ \E c \in Clients : \E name \in ServerTools(client[c].id), args \in Args :
          CallsMade < MaxCalls /\ CallTool(c, name, args) /\ UNCHANGED envVars
    \/ \E i \in Ids : Timeout(i) /\ UNCHANGED envVars
    \/ \E t \in Conns, m \in InboundMsg(MsgIds) : Receive(t, m) /\ UNCHANGED envVars
    \/ \E t \in Conns : TransportOpen(t) /\ UNCHANGED envVars
    \/ \E t \in Conns : TransportFailure(t) /\ UNCHANGED envVars

Spec == Init /\ [][Next]_vars

\* ------------------------------------------------ connect() and disconnect()
NextConnect ==
    \/ \E c \in Clients : ConnectsCalled < MaxConnects /\ ConnectCall(c) /\ UNCHANGED envVars
    \/ \E k \in Conns : TransportConnectFail(k) /\ UNCHANGED envVars
    \/ \E k \in Conns : TransportConnectDone(k) /\ UNCHANGED envVars
    \/ \E k \in Conns : ConnectAfterInit(k) /\ UNCHANGED envVars
    \/ \E k \in Conns : ConnectAfterList(k) /\ UNCHANGED envVars
    \/ \E c \in Clients : Disconnect(c) /\ UNCHANGED envVars
    \/ \E i \in Ids : Timeout(i) /\ UNCHANGED envVars
    \/ \E t \in Conns, m \in InboundMsg(MsgIds) : Receive(t, m) /\ UNCHANGED envVars
    \/ \E t \in Conns : TransportOpen(t) /\ UNCHANGED envVars
    \/ \E t \in Conns : TransportFailure(t) /\ UNCHANGED envVars

SpecConnect == Init /\ [][NextConnect]_vars

\* ------------------------------------------- the Session of a connected Client
\* The state connect() leaves when it resolves: the transport connected,
\* the session's handler registered, the initialize request (1) and the
\* tools/list request (2) sent and resolved, the tools cached.
Handshaken(kind) ==
    /\ client = [c \in AllClients |->
                   IF c \in Clients
                   THEN [createMcpClient(<<"fs">>, kind) EXCEPT
                            !.state = "connected", !.transport = 1, !.session = 1,
                            !.tools = ServerTools(<<"fs">>), !.capabilities = Caps("r1")]
                   ELSE NoClient]
    /\ tr = [t \in Conns |->
               IF t = 1
               THEN [createTransport(kind) EXCEPT !.proc = TRUE, !.isConnected = TRUE,
                                                  !.handlers = {1}, !.sent = {1, 2}]
               ELSE NoTransport]
    /\ sess = [s \in Conns |->
                 IF s = 1
                 THEN [made |-> TRUE, transport |-> 1, pending |-> {},
                       handlerRegistered |-> TRUE]
                 ELSE NoSession]
    /\ req = [i \in Ids |->
                IF i = 1
                THEN [Resolve(NewRequest(1, "initialize", <<>>, ""), "r1") EXCEPT !.timer = FALSE]
                ELSE IF i = 2
                THEN [Resolve(NewRequest(1, "tools/list", <<>>, ""), "tools") EXCEPT !.timer = FALSE]
                ELSE NoRequest]
    /\ conn = [k \in Conns |->
                 IF k = 1
                 THEN [NoConnect EXCEPT !.client = 1, !.pc = "resolved", !.initId = 1,
                                        !.listId = 2]
                 ELSE NoConnect]

InitSession ==
    /\ \E kind \in TransportKinds : Handshaken(kind)
    /\ mgr = createMcpManager(<<>>)
    /\ mcall = [j \in Calls |-> NoCall]
    /\ disc = NoDiscovery /\ chan = NoChannel /\ rpc = NoRpc /\ agent = NoAgent /\ db = NoDb /\ pipe = NoPipe

NextSession ==
    \/ \E c \in Clients : \E name \in ServerTools(client[c].id), args \in Args :
          CallsMade < MaxCalls /\ CallTool(c, name, args) /\ UNCHANGED envVars
    \/ \E i \in Ids : Timeout(i) /\ UNCHANGED envVars
    \/ \E t \in Conns, m \in InboundMsg(MsgIds) : Receive(t, m) /\ UNCHANGED envVars
    \/ \E t \in Conns : TransportOpen(t) /\ UNCHANGED envVars
    \/ \E t \in Conns : TransportFailure(t) /\ UNCHANGED envVars
    \/ \E c \in Clients : Disconnect(c) /\ UNCHANGED envVars

SpecSession == InitSession /\ [][NextSession]_vars

\* ------------------------------------------------------ the Manager's run
InitManager ==
    /\ client = [c \in AllClients |-> NoClient]
    /\ tr = [t \in Conns |-> NoTransport]
    /\ sess = [s \in Conns |-> NoSession]
    /\ req = [i \in Ids |-> NoRequest]
    /\ conn = [k \in Conns |-> NoConnect]
    /\ \E config \in Configs : mgr = createMcpManager(config)
    /\ mcall = [j \in Calls |-> NoCall]
    /\ disc = NoDiscovery /\ chan = NoChannel /\ rpc = NoRpc /\ agent = NoAgent /\ db = NoDb /\ pipe = NoPipe

NextManager ==
    \/ \E name \in CallNames, args \in Args : MgrCallTool(name, args) /\ UNCHANGED unitVars
    \/ \E j \in Calls : MgrLoaded(j) /\ UNCHANGED unitVars
    \/ \E j \in Calls : MgrRoute(j) /\ UNCHANGED unitVars
    \/ \E k \in Conns :
          /\ TransportConnectFail(k)
          /\ tr[k].kind \in {"sse", "none"} \/ ~MgrRunnable
          /\ UNCHANGED envVars
    \/ \E k \in Conns :
          /\ TransportConnectDone(k)
          /\ tr[k].kind = "sse" \/ ~MgrRunnable
          /\ UNCHANGED envVars
    \/ \E k \in Conns : ConnectAfterInit(k) /\ UNCHANGED envVars
    \/ \E k \in Conns : MgrConnectAfterList(k) /\ UNCHANGED unitVars
    \/ \E i \in Ids : Timeout(i) /\ ~MgrRunnable /\ UNCHANGED envVars
    \/ \E t \in Conns, m \in InboundMsg(MsgIds) :
          Receive(t, m) /\ ~MgrRunnable /\ UNCHANGED envVars
    \/ \E t \in Conns : TransportOpen(t) /\ ~MgrRunnable /\ UNCHANGED envVars
    \/ \E t \in Conns : TransportFailure(t) /\ ~MgrRunnable /\ UNCHANGED envVars

SpecManager == InitManager /\ [][NextManager]_vars

\* ----------------------------------- the Manager with Discovery listening
InitRegistry ==
    /\ client = [c \in AllClients |-> NoClient]
    /\ tr = [t \in Conns |-> NoTransport]
    /\ sess = [s \in Conns |-> NoSession]
    /\ req = [i \in Ids |-> NoRequest]
    /\ conn = [k \in Conns |-> NoConnect]
    /\ \E config \in {<<>>} \cup {cfg \in Configs : cfg[1].id = <<"fs">>} :
          mgr = [createMcpManager(config) EXCEPT !.discoveryEnabled = TRUE]
    /\ mcall = [j \in Calls |-> NoCall]
    /\ disc = NoDiscovery /\ chan = NoChannel /\ rpc = NoRpc /\ agent = NoAgent /\ db = NoDb /\ pipe = NoPipe

\* The first Manager operation initializes the Manager; the others here are
\* addServer, removeServer and the announcements.
NextRegistry ==
    \/ /\ ~mgr.initialized /\ \A j \in Calls : mcall[j].pc # "starting"
       /\ MgrCallTool(<<"zz", "tool">>, "a1")
       /\ UNCHANGED unitVars
    \/ \E j \in Calls : MgrLoaded(j) /\ UNCHANGED unitVars
    \/ \E j \in Calls : DiscoveryStarted(j) /\ UNCHANGED <<chan, rpc, agent, db, pipe>>
    \/ \E j \in Calls : MgrRoute(j) /\ UNCHANGED unitVars
    \/ \E body \in AnnounceBodies : Announce(body) /\ UNCHANGED <<chan, rpc, agent, db, pipe>>
    \/ \E cfg \in {ParsedConfig(b) : b \in {x \in AnnounceBodies : validateServerConfig(x)}} :
          MgrAddServer(cfg) /\ UNCHANGED <<chan, rpc, agent, db, pipe>>
    \/ \E id \in ServerIds : MgrRemoveServer(id) /\ UNCHANGED <<chan, rpc, agent, db, pipe>>
    \/ \E k \in Conns :
          /\ TransportConnectFail(k)
          /\ tr[k].kind \in {"sse", "none"} \/ ~MgrRunnable
          /\ UNCHANGED envVars
    \/ \E k \in Conns : TransportConnectDone(k) /\ ~MgrRunnable /\ UNCHANGED envVars
    \/ \E k \in Conns : ConnectAfterInit(k) /\ UNCHANGED envVars
    \/ \E k \in Conns : MgrConnectAfterList(k) /\ UNCHANGED unitVars
    \/ \E i \in Ids : Timeout(i) /\ ~MgrRunnable /\ UNCHANGED envVars
    \/ \E t \in Conns, m \in InboundMsg(MsgIds) :
          Receive(t, m) /\ ~MgrRunnable /\ UNCHANGED envVars

SpecRegistry == InitRegistry /\ [][NextRegistry]_vars

\* --------------------------------------- a Session drawing its identifiers
IdleClients ==
    /\ client = [c \in AllClients |-> NoClient]
    /\ tr = [t \in Conns |-> NoTransport]
    /\ sess = [s \in Conns |-> NoSession]
    /\ req = [i \in Ids |-> NoRequest]
    /\ conn = [k \in Conns |-> NoConnect]
    /\ mgr = createMcpManager(<<>>)
    /\ mcall = [j \in Calls |-> NoCall]

InitIds == IdleClients /\ disc = NoDiscovery /\ chan = NoChannel /\ rpc = createRpcSession /\ agent = NoAgent /\ db = NoDb /\ pipe = NoPipe

NextIds ==
    \/ \E n \in RpcCalls, id \in IdStrings :
          RpcRequest(n, id) /\ UNCHANGED <<clientVars, mgrVars, disc, chan, agent, db, pipe>>
    \/ \E id \in IdStrings, isError \in BOOLEAN :
          RpcReceive(id, isError) /\ UNCHANGED <<clientVars, mgrVars, disc, chan, agent, db, pipe>>
    \/ \E n \in RpcCalls : RpcTimeout(n) /\ UNCHANGED <<clientVars, mgrVars, disc, chan, agent, db, pipe>>

SpecIds == InitIds /\ [][NextIds]_vars

\* ---------------------------------------------- a Transport on its own
ChannelKinds == {"stdio", "sse", "http", "websocket"}
Reaches == {"yes", "no", "broken"}

InitTransport ==
    /\ IdleClients /\ disc = NoDiscovery /\ rpc = NoRpc /\ agent = NoAgent /\ db = NoDb /\ pipe = NoPipe
    /\ \E kind \in ChannelKinds, reach \in Reaches : chan = createChannel(kind, reach)

\* A Client calls connect() on a Transport it has just created and never
\* again after close().
NextTransport ==
    \/ ChanOnMessage /\ UNCHANGED <<clientVars, mgrVars, disc, rpc, agent, db, pipe>>
    \/ ChanConnect /\ chan.closes = 0 /\ UNCHANGED <<clientVars, mgrVars, disc, rpc, agent, db, pipe>>
    \/ ChanImported /\ UNCHANGED <<clientVars, mgrVars, disc, rpc, agent, db, pipe>>
    \/ ChanOpened /\ UNCHANGED <<clientVars, mgrVars, disc, rpc, agent, db, pipe>>
    \/ ChanErrored /\ UNCHANGED <<clientVars, mgrVars, disc, rpc, agent, db, pipe>>
    \/ ChanExited /\ UNCHANGED <<clientVars, mgrVars, disc, rpc, agent, db, pipe>>
    \/ \E ok \in BOOLEAN : ChanSend(ok) /\ UNCHANGED <<clientVars, mgrVars, disc, rpc, agent, db, pipe>>
    \/ ChanClose /\ UNCHANGED <<clientVars, mgrVars, disc, rpc, agent, db, pipe>>
    \/ \E data \in Chunks : ChanStdout(data) /\ UNCHANGED <<clientVars, mgrVars, disc, rpc, agent, db, pipe>>
    \/ \E frame \in Frames : ChanPushed(frame) /\ UNCHANGED <<clientVars, mgrVars, disc, rpc, agent, db, pipe>>

SpecTransport == InitTransport /\ [][NextTransport]_vars

\* ------------------------------- a process transport reading its child
\* StdioTransport after connect() with a command that runs.
Spawned ==
    [createChannel("stdio", "yes") EXCEPT
        !.connect = "resolved", !.proc = TRUE, !.child = "running", !.isConnected = TRUE]

InitStdout == IdleClients /\ disc = NoDiscovery /\ rpc = NoRpc /\ agent = NoAgent /\ db = NoDb /\ pipe = NoPipe /\ chan = Spawned

NextStdout ==
    \/ ChanOnMessage /\ UNCHANGED <<clientVars, mgrVars, disc, rpc, agent, db, pipe>>
    \/ \E data \in Chunks : ChanStdout(data) /\ UNCHANGED <<clientVars, mgrVars, disc, rpc, agent, db, pipe>>
    \/ ChanExited /\ UNCHANGED <<clientVars, mgrVars, disc, rpc, agent, db, pipe>>

SpecStdout == InitStdout /\ [][NextStdout]_vars

\* ------------------------------------------- converting tool descriptors
InitConvert ==
    /\ IdleClients /\ disc = NoDiscovery /\ chan = NoChannel /\ rpc = NoRpc
    /\ db = NoDb /\ pipe = NoPipe
    /\ \E d \in Descriptors, serverId \in ServerIds : agent = ConvertJob(d, serverId)

NextConvert ==
    \/ \E via \in {"converter", "adapter"} :
          Convert(via) /\ UNCHANGED <<clientVars, mgrVars, disc, chan, rpc, db, pipe>>
    \/ ConvertBack /\ UNCHANGED <<clientVars, mgrVars, disc, chan, rpc, db, pipe>>

SpecConvert == InitConvert /\ [][NextConvert]_vars

\* ---------------------------------------------- results of tool calls
InitToolCall ==
    /\ IdleClients /\ disc = NoDiscovery /\ chan = NoChannel /\ rpc = NoRpc
    /\ db = NoDb /\ pipe = NoPipe
    /\ \E result \in ToolCallResults, thrown \in BOOLEAN :
          /\ thrown => (result.content = <<>> /\ ~result.isError)
          /\ agent = ToolCallJob(result, thrown)

NextToolCall ==
    \E path \in ToolPaths : InvokeTool(path) /\ UNCHANGED <<clientVars, mgrVars, disc, chan, rpc, db, pipe>>

SpecToolCall == InitToolCall /\ [][NextToolCall]_vars

\* ------------------------------------------------ an isolated Client
InitIsolated ==
    /\ IdleClients /\ disc = NoDiscovery /\ chan = NoChannel /\ rpc = NoRpc
    /\ db = NoDb /\ pipe = NoPipe
    /\ agent = IsolatedClient

NextIsolated ==
    \/ \E ms \in {0, 1} : StartPeriodicSync(ms) /\ UNCHANGED <<clientVars, mgrVars, disc, chan, rpc, db, pipe>>
    \/ StopPeriodicSync /\ UNCHANGED <<clientVars, mgrVars, disc, chan, rpc, db, pipe>>
    \/ StopAllSyncIntervals /\ UNCHANGED <<clientVars, mgrVars, disc, chan, rpc, db, pipe>>
    \/ \E t \in TimerIds : SyncTick(t) /\ UNCHANGED <<clientVars, mgrVars, disc, chan, rpc, db, pipe>>
    \/ \E ok \in BOOLEAN : SyncSettled(ok) /\ UNCHANGED <<clientVars, mgrVars, disc, chan, rpc, db, pipe>>
    \/ IsoCallTool /\ UNCHANGED <<clientVars, mgrVars, disc, chan, rpc, db, pipe>>
    \/ IsoCallAnswered /\ UNCHANGED <<clientVars, mgrVars, disc, chan, rpc, db, pipe>>
    \/ IsoDisconnect /\ UNCHANGED <<clientVars, mgrVars, disc, chan, rpc, db, pipe>>
    \/ CleanupStart /\ UNCHANGED <<clientVars, mgrVars, disc, chan, rpc, db, pipe>>
    \/ \E ok \in BOOLEAN : CleanupSaved(ok) /\ UNCHANGED <<clientVars, mgrVars, disc, chan, rpc, db, pipe>>

SpecIsolated == InitIsolated /\ [][NextIsolated]_vars

\* ------------------------------------------------------------ properties
Responses == {m \in InboundMsg(Ids \cup {UnknownId}) : m.jsonrpc = "2.0" /\ m.key \in {"result", "error"}}

\* The sessions registered with transport t that hold identifier i pending.
Holders(t, i) == {s \in tr[t].handlers : i \in sess[s].pending}

Settled(r, m) ==
    IF m.key = "result"
    THEN r.promise = "resolved" /\ r.value = m.val
    ELSE r.promise = "rejected" /\ r.error = <<m.val>>

\* C1: an inbound response whose identifier is pending in a session of the
\* transport settles that one request (resolved with the result, rejected
\* with the error) and removes it from the pending map, every other request
\* and every other entry staying as it was; a response whose identifier is
\* pending nowhere changes nothing.
C1_ResponseSettlesItsRequest ==
    [][\A t \in Conns : \A m \in Responses :
        Receive(t, m) =>
            IF Holders(t, m.id) # {}
            THEN /\ req[m.id].promise = "pending"
                 /\ Settled(req'[m.id], m)
                 /\ \A j \in Ids \ {m.id} : req'[j] = req[j]
                 /\ \A s \in Conns : sess'[s].pending = sess[s].pending \ {m.id}
            ELSE UNCHANGED vars]_vars

\* A response arrived for a pending tools/call request whose session holds
\* a second pending request: the first is resolved and gone from the map,
\* the second still pending in it.
C1_Witness ==
    \E i, j \in Ids, s \in Conns :
        /\ i # j
        /\ req[i].method = "tools/call" /\ req[i].session = s
        /\ req[i].promise = "resolved" /\ req[i].value = "r1"
        /\ i \notin sess[s].pending
        /\ req[j].promise = "pending" /\ j \in sess[s].pending

TimedOut(i) == req[i].promise = "rejected" /\ req[i].error = TimeoutError(req[i].method)

\* C2: when the timer of a pending request fires, the request is rejected
\* with the timeout error naming its method and is in no pending map; a
\* message bearing the identifier of a timed-out request changes nothing.
C2_TimeoutRemovesAndLateResponseIsNoOp ==
    [][/\ \A i \in Ids :
            (Timeout(i) /\ req[i].promise = "pending") =>
                /\ req'[i].promise = "rejected"
                /\ req'[i].error = <<"Request timeout", req[i].method>>
                /\ \A s \in Conns : i \notin sess'[s].pending
       /\ \A t \in Conns : \A m \in InboundMsg(Ids) :
            (m.id \in Ids /\ TimedOut(m.id) /\ Receive(t, m)) => UNCHANGED vars]_vars

\* A tools/call request that reached the server timed out while its
\* transport still delivers messages: its response can still arrive.
C2_Witness ==
    \E i \in Ids, t \in Conns :
        /\ req[i].method = "tools/call" /\ TimedOut(i)
        /\ i \in tr[t].sent /\ tr[t].isConnected /\ req[i].session \in tr[t].handlers

\* C3: the timer of request i firing leaves every other request as it was
\* (state, timer, entry in the pending map), and leaves the handler
\* registrations, the transports and the clients as they were.
C3_TimeoutTouchesOnlyItsRequest ==
    [][\A i \in Ids :
        Timeout(i) =>
            /\ \A j \in Ids \ {i} : req'[j] = req[j]
            /\ \A s \in Conns :
                /\ sess'[s].pending \ {i} = sess[s].pending \ {i}
                /\ sess'[s].handlerRegistered = sess[s].handlerRegistered
            /\ UNCHANGED <<tr, client>>]_vars

\* One request of a session has timed out while another of the same
\* session is still pending with its timer, on a connected transport with
\* the handler registered.
C3_Witness ==
    \E i, j \in Ids, s \in Conns :
        /\ i # j /\ req[i].session = s /\ req[j].session = s
        /\ TimedOut(i)
        /\ req[j].promise = "pending" /\ req[j].timer /\ j \in sess[s].pending
        /\ sess[s].handlerRegistered
        /\ tr[sess[s].transport].isConnected

\* C4: a result response resolves the tools/call request whose identifier
\* it bears with the result it carries, and changes no other tools/call
\* request: each caller gets the result sent for its own request, whatever
\* the order of the responses.
C4_CallsGetTheirOwnResults ==
    [][\A t \in Conns : \A m \in Responses :
        (m.key = "result" /\ Receive(t, m)) =>
            \A j \in Ids :
                req[j].method = "tools/call" =>
                    IF j = m.id /\ Holders(t, j) # {}
                    THEN req'[j].promise = "resolved" /\ req'[j].value = m.val
                    ELSE req'[j] = req[j]]_vars

\* Two callTool calls were outstanding on a connected client; the one sent
\* second was answered first, and each holds the result sent for it.
C4_Witness ==
    \E i, j \in Ids, c \in AllClients :
        /\ i < j
        /\ client[c].state = "connected"
        /\ req[i].method = "tools/call" /\ req[j].method = "tools/call"
        /\ req[i].session = client[c].session /\ req[j].session = client[c].session
        /\ req[j].promise = "resolved" /\ req[j].value = "r1"
        /\ req[i].promise = "pending" /\ i \in tr[client[c].transport].sent

\* C5: session.close() / disconnect() with requests pending rejects every
\* one of them and leaves the pending map empty.
C5_CloseRejectsPending ==
    [][\A c \in AllClients :
        (client[c].made /\ client[c].session # Null /\ Disconnect(c)) =>
            /\ sess'[client[c].session].pending = {}
            /\ \A i \in sess[client[c].session].pending : req'[i].promise = "rejected"]_vars

\* C6: callTool on a client whose state is not connected registers no
\* request and sends nothing.
C6_CallToolNeedsConnected ==
    [][\A c \in AllClients : \A name \in ServerTools(client[c].id), args \in Args :
        (client[c].made /\ client[c].state # "connected" /\ CallTool(c, name, args)) =>
            UNCHANGED <<req, sess, tr>>]_vars

ConnectOutcome(k) ==
    IF conn[k].pc = "awaitInit" THEN req[conn[k].initId]
    ELSE IF conn[k].pc = "awaitList" THEN req[conn[k].listId]
    ELSE NoRequest

\* C7: a connect() call that rejects leaves the state error and rejects
\* with the failure of the step that failed; the state becomes connected
\* only in the step of a connect() call whose initialize request and whose
\* tools/list request were both resolved with a usable result.
C7_ConnectFailsToErrorAndConnectsAfterBoth ==
    [][/\ \A k \in Conns :
            (conn[k].pc # "rejected" /\ conn'[k].pc = "rejected") =>
                /\ client'[conn'[k].client].state = "error"
                /\ conn'[k].error # NoError
                /\ ConnectOutcome(k).promise = "rejected" =>
                       conn'[k].error = ConnectOutcome(k).error
       /\ \A c \in AllClients :
            (client[c].state # "connected" /\ client'[c].state = "connected") =>
                \E k \in Conns :
                    /\ conn[k].client = c
                    /\ conn[k].pc = "awaitList" /\ conn'[k].pc = "resolved"
                    /\ req[conn[k].initId].promise = "resolved"
                    /\ HasProperties(req[conn[k].initId].value)
                    /\ req[conn[k].listId].promise = "resolved"
                    /\ HasTools(req[conn[k].listId].value)
                    /\ client'[c].tools = ServerTools(client[c].id)]_vars

\* A connect() call got through the handshake and failed in tools/list with
\* the server's error; the client is in state error.
C7_Witness ==
    \E k \in Conns :
        /\ conn[k].pc = "rejected" /\ conn[k].listId # Null
        /\ conn[k].error = <<"boom">>
        /\ client[conn[k].client].state = "error"

AllowedTransitions ==
    {<<"disconnected", "connecting">>, <<"connecting", "connected">>,
     <<"connecting", "error">>, <<"connected", "disconnected">>,
     <<"connected", "error">>}

\* C8: a client's state changes only along disconnected -> connecting,
\* connecting -> connected, connecting -> error, connected -> disconnected
\* and connected -> error.
C8_OnlyListedTransitions ==
    [][\A c \in AllClients :
        client'[c].state # client[c].state =>
            <<client[c].state, client'[c].state>> \in AllowedTransitions]_vars

\* C9: a client in state connected has a transport whose connected flag is
\* true.
C9_ConnectedImpliesTransportConnected ==
    \A c \in AllClients :
        (client[c].made /\ client[c].state = "connected" /\ client[c].transport # Null) =>
            tr[client[c].transport].isConnected

\* C10: Manager.callTool("S_T", args), for a connected server S that
\* advertised T, issues through the session of S's client a tools/call
\* request that names T and carries args.
C10_ManagerCallInvokesAdvertisedTool ==
    [][\A S \in ServerIds : \A T \in ServerTools(S), args \in Args :
        (/\ mgr.initialized
         /\ mgr.clients[S] # Null
         /\ client[mgr.clients[S]].state = "connected"
         /\ T \in client[mgr.clients[S]].tools
         /\ MgrCallTool(toLoomosToolName(S, T), args)) =>
            \E i \in Ids :
                /\ ~req[i].issued /\ req'[i].issued
                /\ req'[i].session = client[mgr.clients[S]].session
                /\ req'[i].method = "tools/call"
                /\ req'[i].name = T
                /\ req'[i].args = args]_vars

\* C11: Manager.callTool of a name that Manager.getTools() returns, the
\* namespaced name of tool T of server S, is delegated to the Client of S:
\* the call goes through that Client's callTool, for every server id.
C11_CallIsDelegatedToAdvertisingServer ==
    [][\A S \in ServerIds : \A T \in ServerTools(S), args \in Args :
        (/\ mgr.initialized
         /\ toLoomosToolName(S, T) \in mgr.tools
         /\ mgr.clients[S] # Null
         /\ MgrCallTool(toLoomosToolName(S, T), args)) =>
            \E j \in Calls :
                /\ mcall[j].pc = "unused" /\ mcall'[j].pc = "called"
                /\ mcall'[j].client = mgr.clients[S]]_vars

\* C12: a Manager.callTool for whose name no Client is found fails with the
\* ToolNotFound error code and leaves requests, sessions and transports as
\* they were; a call whose Client is found and throws fails with the
\* Client's error.
C12_UnroutableCallFailsWithToolNotFound ==
    [][\A j \in Calls :
        (mcall[j].pc \in {"unused", "routing"} /\ mcall'[j].pc = "failed") =>
            IF mcall'[j].client = Null
            THEN /\ mcall'[j].errorCode = ToolNotFound
                 /\ UNCHANGED <<req, sess, tr>>
            ELSE mcall'[j].error = <<"Client not connected">>]_vars

\* C13: no two Clients of the same server id are both connecting or
\* connected.
C13_OneActiveClientPerId ==
    \A c, d \in AllClients :
        (/\ c # d /\ client[c].made /\ client[d].made
         /\ client[c].id = client[d].id
         /\ client[c].state \in {"connecting", "connected"}) =>
            client[d].state \notin {"connecting", "connected"}

\* C14: within one Session a request() is given an identifier that no
\* earlier request() of that Session was given, and is never stored in
\* pendingRequests under an identifier whose entry is still outstanding.
C14_RequestIdsAreNeverReused ==
    [][\A n \in RpcCalls :
        (rpc.call[n].promise = "none" /\ rpc'.call[n].promise = "pending") =>
            /\ rpc'.call[n].id \notin RpcIssued
            /\ rpc.pendingRequests[rpc'.call[n].id] = NoId]_vars

\* C15: POST /announce with a body that is no valid ServerConfig is answered
\* 400, emits no serverFound event and makes no Client; a valid ServerConfig
\* is answered 200 and emits one serverFound event.
C15_InvalidAnnouncementIsRejected ==
    [][\A body \in AnnounceBodies :
        Announce(body) =>
            IF validateServerConfig(body)
            THEN disc'.status = 200 /\ disc'.emitted = disc.emitted + 1
            ELSE /\ disc'.status = 400
                 /\ disc'.emitted = disc.emitted
                 /\ \A c \in AllClients : client'[c].made = client[c].made]_vars

\* C16: a Client added for an announced valid ServerConfig, still the
\* Manager's Client of its id, is in getServerStates() once its connect()
\* call has finished.
C16_AnnouncedClientIsListedAfterItsAttempt ==
    \A c \in disc.added :
        (/\ client[c].kind \in SchemaKinds
         /\ mgr.clients[client[c].id] = c
         /\ conn[c].pc \in {"resolved", "rejected"}) =>
            client[c].id \in getServerStates

\* C17: in every read of a process transport's standard output, each line
\* that is valid JSON is handed to the registered handlers, in order,
\* whatever invalid lines precede it in that read or were dropped in an
\* earlier read; the invalid lines raise nothing: the transport stays as
\* it was.
C17_InvalidLineIsDroppedValidLinesAreDelivered ==
    [][(chan.kind = "stdio" /\ chan.handlers /\ chan'.reads = chan.reads + 1) =>
            LET lines == split(chan'.chunk, "\n")
                valid == {i \in 1..Len(lines) : JsonParse(lines[i]).ok}
            IN  /\ Len(chan'.delivered) = Cardinality(valid)
                /\ \A i \in valid :
                      chan'.delivered[Cardinality({k \in valid : k <= i})] =
                          JsonParse(lines[i]).value
                /\ chan'.isConnected = chan.isConnected
                /\ chan'.proc = chan.proc
                /\ chan'.child = chan.child /\ chan'.handlers]_vars

\* A second read whose first line is not JSON and whose second line is,
\* after a read that had a line dropped: the second line was delivered.
C17_Witness ==
    /\ chan.kind = "stdio" /\ chan.handlers /\ chan.reads = 2 /\ chan.dropped
    /\ Len(split(chan.chunk, "\n")) >= 2
    /\ LET lines == split(chan.chunk, "\n")
       IN  /\ trim(lines[1]) # <<>> /\ ~JsonParse(lines[1]).ok
           /\ JsonParse(lines[2]).ok
           /\ chan.delivered = <<JsonParse(lines[2]).value>>

\* The channel of a Transport is there: the child runs, the event stream or
\* the socket is open.  The plain-HTTP transport has no channel to open.
ChannelEstablished ==
    CASE chan.kind = "stdio" -> chan.child = "running"
      [] chan.kind = "sse" -> chan.es = "open"
      [] chan.kind = "websocket" -> chan.ws = "open"
      [] OTHER -> TRUE

\* C18: a connect() call that settles is resolved only if the channel is
\* established, and where the channel cannot be established (the command
\* cannot be spawned, the event stream or the socket cannot be opened) it
\* is rejected with ConnectionFailed.
C18_ConnectFailsUnlessChannelEstablished ==
    [][(chan.connect \in {"idle", "importing"} /\ chan'.connect \in {"resolved", "rejected"}) =>
          /\ chan'.connect = "resolved" => ChannelEstablished'
          /\ (chan.kind # "http" /\ chan.reach # "yes") =>
                (chan'.connect = "rejected" /\ chan'.connectCode = ConnectionFailed)]_vars

\* C19: a send() on a Transport whose connected flag is false (before
\* connect(), after close(), after the process exited or the stream or
\* socket closed) throws and transmits nothing.
C19_SendFailsWhenChannelNotOpen ==
    [][(chan'.sends = chan.sends + 1 /\ ~chan.isConnected) =>
          (chan'.sendResult = "threw" /\ chan'.transmitted = chan.transmitted)]_vars

\* C20: once close() was called the connected flag is false and stays
\* false, no inbound message is handed to a handler any more, and a
\* further close() changes nothing in the Transport.
C20_CloseIsFinalAndIdempotent ==
    [][/\ chan'.closes > 0 => ~chan'.isConnected
       /\ (chan.closes > 0 /\ chan'.reads = chan.reads + 1) => chan'.delivered = <<>>
       /\ (chan.closes > 0 /\ chan'.closes = chan.closes + 1) =>
             [chan' EXCEPT !.closes = 0] = [chan EXCEPT !.closes = 0]]_vars


\* C21: a request() whose outbound message the transport does not take
\* (the channel is not open) is rejected in that very step and is not left
\* in pendingRequests; the other requests are as they were.
C21_SendFailureFailsTheRequestAtOnce ==
    [][\A i \in Ids :
        (/\ ~req[i].issued /\ req'[i].issued
         /\ req'[i].session # Null
         /\ sess[req'[i].session].transport # Null
         /\ ~SendReaches(tr[sess[req'[i].session].transport])) =>
            /\ req'[i].promise = "rejected"
            /\ i \notin sess'[req'[i].session].pending
            /\ \A h \in Ids \ {i} : req'[h] = req[h]]_vars


\* C22: on a plain-HTTP transport with a registered handler, a send() whose
\* POST the server answers with an ok status reads the response as one
\* inbound message for the handlers.
C22_PlainHttpResponseIsDelivered ==
    [][(/\ chan.kind = "http" /\ chan.handlers
        /\ chan'.sends = chan.sends + 1 /\ chan'.sendResult = "ok") =>
            chan'.reads = chan.reads + 1]_vars


\* C23: a ToolDescriptor converted to a Tool and read back (the name
\* stripped of the server id) has the descriptor's name, its description
\* and its set of required parameters.
C23_ToolRoundTripPreservesDescriptor ==
    (agent.unit = "convert" /\ agent.back # NoTool) =>
        /\ agent.back.name = agent.d.name
        /\ agent.back.description = OrEmptyText(agent.d.description)
        /\ agent.back.required = OrEmptyList(agent.d.required)


\* C24: a tools/call result the server flagged with isError reaches the
\* agent, on every path, as a returned ToolResult with success false whose
\* error is the flattened content.
C24_ErrorResultIsAFailedToolResult ==
    (agent.unit = "toolcall" /\ agent.path # "none" /\ ~agent.thrown /\ agent.result.isError) =>
        /\ agent.outcome = "returned"
        /\ ~agent.toolResult.success
        /\ agent.toolResult.error.present
        /\ agent.toolResult.error.text =
              Flatten(IF agent.path = "getMCPToolHandler" THEN "extractMCPToolContent"
                      ELSE agent.path, agent.result.content)


\* C25: when a periodic sync of an isolated Client fails, the failure is
\* logged and nothing else happens: the callTool in flight, the connection
\* and the running timer are as before, and nothing is thrown.
C25_SyncFailureIsOnlyLogged ==
    [][(/\ agent.unit = "isolated"
        /\ agent'.inFlight = agent.inFlight - 1
        /\ agent'.saved = agent.saved) =>
            /\ agent'.logged = agent.logged + 1
            /\ agent'.call = agent.call
            /\ agent'.connected = agent.connected
            /\ agent'.timers = agent.timers
            /\ agent'.intervalId = agent.intervalId
            /\ ~agent'.uncaught]_vars

\* A sync failed while a callTool was in flight; the call then resolved,
\* the Client is connected and its timer runs.
C25_Witness ==
    /\ agent.unit = "isolated" /\ agent.failedDuringCall /\ agent.logged > 0
    /\ agent.call = "resolved" /\ agent.connected
    /\ agent.timers # {} /\ agent.inFlight = 0

\* C26: an isolated Client never has more than one sync timer running; a
\* stopPeriodicSync leaves none running; and a stopPeriodicSync with no
\* timer set (called twice, or without a start) changes nothing.
C26_PeriodicSyncIsCancellableAndIdempotent ==
    [][agent.unit = "isolated" =>
          /\ Cardinality(agent'.timers) <= 1
          /\ agent'.stops = agent.stops + 1 =>
                /\ agent'.timers = {}
                /\ agent'.intervalId = NoTimer /\ agent'.entry = NoTimer
                /\ agent.intervalId = NoTimer =>
                      agent' = [agent EXCEPT !.stops = @ + 1]]_vars

\* Two starts and two stops happened, the second stop with nothing to
\* stop, and no timer runs.
C26_Witness ==
    /\ agent.unit = "isolated" /\ agent.starts >= 2 /\ agent.stops >= 2
    /\ agent.timers = {} /\ agent.intervalId = NoTimer

\* C27: the step of an isolated Client's disconnect that closes the
\* transport comes after exactly one final sync of that teardown.
C27_DisconnectSavesOnceBeforeClosing ==
    [][(agent.unit = "isolated" /\ agent.connected /\ ~agent'.connected) =>
          agent'.teardownSaves = 1]_vars


\* No connect() call and no Manager operation is under way.
ManagerQuiet ==
    /\ ~Runnable /\ ~MgrRunnable
    /\ \A k \in Conns : conn[k].pc \in {"unused", "resolved", "rejected"}
    /\ \A j \in Calls : mcall[j].pc # "starting"

\* The Tools of the Clients that are connected now, under their
\* namespaced names.
ToolsOfConnected ==
    UNION {{toLoomosToolName(client[c].id, t) : t \in client[c].tools} :
              c \in {d \in AllClients : client[d].made /\ client[d].state = "connected"}}

\* C28: whenever nothing is under way, the Tools the Manager's tool
\* registry holds are those of exactly the Clients connected now.
C28_ToolRegistryMatchesConnectedClients ==
    (mgr.initialized /\ ManagerQuiet) => mgr.tools = ToolsOfConnected


\* C30: getServerStates() lists only servers the Manager still has a
\* Client for: none that removeServer has removed, also when that
\* server's connect() finishes after the removal.
C30_RegistryListsLiveClientsOnly ==
    mgr.initialized => \A id \in getServerStates : mgr.clients[id] # Null


\* ------------------------------------------------------ two Clients at once
\* Two Clients of one process, as addServer creates them: the first is
\* fresh and goes through connect() and disconnect(); the second has
\* completed connect() (its Transport and Session in slot 2, its initialize
\* and tools/list requests 1 and 2 resolved) and calls its tool.
PairClients == {1, 2}

\* The connect() calls, Transports and Sessions of Client c.
SlotsOf(c) == {k \in Conns : conn[k].client = c}

\* Everything createMcpClient's closure holds for Client c and what hangs
\* off it: state, tool cache, Transport, Session with its pending requests
\* and their promises, connect() calls.
Footprint(c) ==
    [state |-> client[c],
     slots |-> [k \in SlotsOf(c) |-> <<tr[k], sess[k], conn[k]>>],
     requests |-> [i \in {h \in Ids : req[h].session \in SlotsOf(c)} |-> req[i]]]

InitPair ==
    /\ \E kind \in ConfigKinds, other \in {"stdio"} :
        /\ client = [c \in AllClients |->
                       IF c = 1 THEN createMcpClient(<<"fs">>, kind)
                       ELSE IF c = 2
                       THEN [createMcpClient(<<"db">>, other) EXCEPT
                                !.state = "connected", !.transport = 2, !.session = 2,
                                !.tools = ServerTools(<<"db">>), !.capabilities = Caps("r1")]
                       ELSE NoClient]
        /\ tr = [t \in Conns |->
                   IF t = 2
                   THEN [createTransport(other) EXCEPT !.proc = TRUE, !.isConnected = TRUE,
                                                      !.handlers = {2}, !.sent = {1, 2}]
                   ELSE NoTransport]
    /\ sess = [s \in Conns |->
                 IF s = 2
                 THEN [made |-> TRUE, transport |-> 2, pending |-> {},
                       handlerRegistered |-> TRUE]
                 ELSE NoSession]
    /\ req = [i \in Ids |->
                IF i = 1
                THEN [Resolve(NewRequest(2, "initialize", <<>>, ""), "r1") EXCEPT !.timer = FALSE]
                ELSE IF i = 2
                THEN [Resolve(NewRequest(2, "tools/list", <<>>, ""), "tools") EXCEPT !.timer = FALSE]
                ELSE NoRequest]
    /\ conn = [k \in Conns |->
                 IF k = 2
                 THEN [NoConnect EXCEPT !.client = 2, !.pc = "resolved", !.initId = 1,
                                        !.listId = 2]
                 ELSE NoConnect]
    /\ mgr = createMcpManager(<<>>)
    /\ mcall = [j \in Calls |-> NoCall]
    /\ disc = NoDiscovery /\ chan = NoChannel /\ rpc = NoRpc /\ agent = NoAgent /\ db = NoDb /\ pipe = NoPipe

\* The identifiers a message may carry: those some Session has pending, and
\* one no Session has (a settled or never issued identifier finds no entry
\* either).
PairMsgIds == UNION {sess[s].pending : s \in Conns} \cup {UnknownId}

NextPair ==
    \/ \E c \in {1} : SlotsOf(c) = {} /\ ConnectCall(c) /\ UNCHANGED envVars
    \/ \E k \in Conns : TransportConnectFail(k) /\ UNCHANGED envVars
    \/ \E k \in Conns : TransportConnectDone(k) /\ UNCHANGED envVars
    \/ \E k \in Conns : ConnectAfterInit(k) /\ UNCHANGED envVars
    \/ \E k \in Conns : ConnectAfterList(k) /\ UNCHANGED envVars
    \/ \E c \in PairClients : Disconnect(c) /\ UNCHANGED envVars
    \/ \E c \in {2} : \E name \in ServerTools(client[c].id), args \in {"a1"} :
          CallsMade < MaxPairCalls /\ CallTool(c, name, args) /\ UNCHANGED envVars
    \/ \E i \in Ids : Timeout(i) /\ UNCHANGED envVars
    \/ \E t \in Conns, m \in InboundMsg(PairMsgIds) : Receive(t, m) /\ UNCHANGED envVars
    \/ \E t \in Conns : TransportOpen(t) /\ UNCHANGED envVars
    \/ \E t \in Conns : TransportFailure(t) /\ UNCHANGED envVars

SpecPair == InitPair /\ [][NextPair]_vars

\* A step in which Client c fails: its connect() is caught (state 'error'),
\* one of its pending requests is rejected (timeout, error reply), its
\* Transport's channel goes down (child exit, stream error, close), or it is
\* disconnected.
FailureOf(c) ==
    \/ client[c].state # "error" /\ client'[c].state = "error"
    \/ client[c].state # "disconnected" /\ client'[c].state = "disconnected"
    \/ \E i \in Ids : /\ req[i].session \in SlotsOf(c)
                      /\ req[i].promise = "pending" /\ req'[i].promise = "rejected"
    \/ \E k \in SlotsOf(c) : tr[k].isConnected /\ ~tr'[k].isConnected

InitQueue ==
    /\ IdleClients /\ disc = NoDiscovery /\ chan = NoChannel /\ rpc = NoRpc
    /\ agent = NoAgent /\ pipe = NoPipe
    /\ \E copy \in QueueCopies, provider \in Providers : db = TaskQueueTable(copy, provider)

NextQueue ==
    \/ \E p \in Priorities, m \in AttemptLimits :
          createTaskForQueue(p, m) /\ UNCHANGED <<clientVars, mgrVars, disc, chan, rpc, agent, pipe>>
    \/ \E w \in WorkerIds : claimTask(w) /\ UNCHANGED <<clientVars, mgrVars, disc, chan, rpc, agent, pipe>>
    \/ \E t \in TaskIds, ok \in BOOLEAN :
          completeTask(t, ok) /\ UNCHANGED <<clientVars, mgrVars, disc, chan, rpc, agent, pipe>>
    \/ \E t \in TaskIds : TaskAges(t) /\ UNCHANGED <<clientVars, mgrVars, disc, chan, rpc, agent, pipe>>
    \/ recoverStaleTasks /\ UNCHANGED <<clientVars, mgrVars, disc, chan, rpc, agent, pipe>>

SpecQueue == InitQueue /\ [][NextQueue]_vars

\* C31: a task claimTask returns is in status 'processing' with the
\* claimer's workerId, and had not been returned by an earlier claimTask
\* unless recoverStaleTasks reset it since.
C31_ClaimIsExclusive ==
    [][(db.unit = "queue" /\ db'.claims = db.claims + 1 /\ db'.returned # NoRow) =>
          /\ db'.returned.status = "processing"
          /\ db'.tasks[db'.returned.id].status = "processing"
          /\ db'.tasks[db'.returned.id].workerId = db'.returned.workerId
          /\ db'.returned.id \notin db.held]_vars

\* C32: a task's attempts counter never exceeds its maxAttempts.
C32_AttemptsNeverExceedMaxAttempts ==
    db.unit = "queue" =>
        \A t \in TaskIds : db.tasks[t].made => db.tasks[t].attempts <= db.tasks[t].maxAttempts


\* C33: an inbound value that is not a response (a request: id and method;
\* a notification: method, no id; a value with neither result nor error, or
\* not JSON-RPC 2.0) settles no pending request, whatever its id.
C33_OnlyResponsesSettleRequests ==
    [][\A t \in Conns, m \in InboundMsg(MsgIds) :
          ((m.jsonrpc # "2.0" \/ m.key \notin {"result", "error"}) /\ Receive(t, m)) =>
              req' = req /\ sess' = sess]_vars


\* C34: once disconnect() has returned, the Client's state stays
\* 'disconnected' until the next connect() call (which sets 'connecting'),
\* also when an earlier connect() is still in flight.
C34_DisconnectedUntilNextConnect ==
    [][\A c \in Clients :
          (client[c].state = "disconnected" /\ client'[c].state # "disconnected") =>
              client'[c].state = "connecting"]_vars


\* ------------------------------------ the child's standard output as a stream
\* pipe: everything the child has written to its standard output, and every
\* value the handlers were given, over all 'data' events.  The operating
\* system cuts the stream into 'data' events wherever it likes.
EmptyPipe == [unit |-> "stdout", written |-> <<>>, received |-> <<>>]

StdoutData(data) ==
    /\ ChanStdout(data)
    /\ pipe' = [pipe EXCEPT !.written = @ \o data, !.received = @ \o chan'.delivered]

InitPipe ==
    /\ IdleClients /\ disc = NoDiscovery /\ rpc = NoRpc /\ agent = NoAgent /\ db = NoDb
    /\ chan = [Spawned EXCEPT !.handlers = TRUE]
    /\ pipe = EmptyPipe

NextPipe ==
    \/ \E data \in Chunks : StdoutData(data) /\ UNCHANGED <<clientVars, mgrVars, disc, rpc, agent, db>>
    \/ ChanExited /\ UNCHANGED <<clientVars, mgrVars, disc, rpc, agent, db, pipe>>

SpecPipe == InitPipe /\ [][NextPipe]_vars

\* C35: whenever what the child has written ends with a newline, the
\* handlers have been given exactly the JSON values of its lines, each once
\* and in order, however the stream was cut into reads.
C35_StreamIsDeliveredWhateverTheChunking ==
    (pipe.unit = "stdout" /\ pipe.written # <<>>
     /\ pipe.written[Len(pipe.written)] = "\n") =>
        pipe.received = DeliverLines(split(pipe.written, "\n"))


\* C36: the configuration is loaded, the configured Clients are created
\* and the Registry / Tool Registry pair is made once: no call's
\* ensureInitialized goes past loadMcpConfig on a Manager that already did.
C36_ManagerInitializesOnce ==
    [][\A j \in Calls :
          (mcall[j].pc = "loading" /\ mcall'[j].pc # "loading") =>
              ~mgr.loaded]_vars


\* --------------------------------------- Manager operations called together
\* Two Manager operations issued before the first initialization is over,
\* up to the point where every Client's transport is connected or failed.
NextInit ==
    \/ \E name \in CallNames, args \in Args : MgrCallTool(name, args) /\ UNCHANGED unitVars
    \/ \E name \in CallNames, args \in Args : MgrCallDuringInit(name, args) /\ UNCHANGED unitVars
    \/ \E j \in Calls :
          /\ MgrLoaded(j)
          /\ \A h \in Calls : mcall[h].pc = "loading" => j <= h
          /\ UNCHANGED unitVars
    \/ \E j \in Calls : MgrRoute(j) /\ UNCHANGED unitVars
    \/ \E k \in Conns :
          /\ TransportConnectFail(k)
          /\ tr[k].kind \in {"sse", "none"} \/ ~MgrRunnable
          /\ UNCHANGED envVars
    \/ \E k \in Conns :
          /\ TransportConnectDone(k)
          /\ tr[k].kind = "sse" \/ ~MgrRunnable
          /\ UNCHANGED envVars

SpecInit == InitManager /\ [][NextInit]_vars


\* ------------------------------------------------- the client caches' run
InitCache ==
    /\ IdleClients /\ disc = NoDiscovery /\ chan = NoChannel /\ rpc = NoRpc
    /\ db = NoDb /\ pipe = NoPipe
    /\ agent = ClientCaches

NextCache ==
    \/ \E server \in ServerNames :
          /\ GetClient("shared", server, NoUser)
          /\ UNCHANGED <<clientVars, mgrVars, disc, chan, rpc, db, pipe>>
    \/ \E server \in ServerNames, user \in UserIds :
          /\ GetClient("isolated", server, user)
          /\ UNCHANGED <<clientVars, mgrVars, disc, chan, rpc, db, pipe>>
    \/ \E g \in Gets, ok \in BOOLEAN :
          GetConnected(g, ok) /\ UNCHANGED <<clientVars, mgrVars, disc, chan, rpc, db, pipe>>

SpecCache == InitCache /\ [][NextCache]_vars

\* The client a cache holds for the key of made client c.
CachedFor(c) ==
    IF agent.made[c].variant = "shared" THEN agent.shared[agent.made[c].server]
    ELSE agent.isolated[agent.made[c].user]

\* C37: at most one client is created per key, every caller of a key
\* receives the same client, and every connected client is the one its
\* cache holds.
C37_OneClientPerCacheKey ==
    agent.unit = "cache" =>
        /\ \A c \in 1..Len(agent.made) : agent.made[c].connected => CachedFor(c) = c
        /\ \A g \in Gets, h \in Gets :
              (/\ agent.gets[g].pc = "returned" /\ agent.gets[h].pc = "returned"
               /\ agent.gets[g].variant = agent.gets[h].variant
               /\ CacheKey(agent.gets[g].variant, agent.gets[g].server, agent.gets[g].user)
                    = CacheKey(agent.gets[h].variant, agent.gets[h].server, agent.gets[h].user))
                  => agent.gets[g].client = agent.gets[h].client

\* C38: the client getIsolatedMCPClient(c, u) returns is a client of c's
\* server made for user u.
C38_IsolatedClientIsOfTheServerAndUser ==
    agent.unit = "cache" =>
        \A g \in Gets :
            (agent.gets[g].pc = "returned" /\ agent.gets[g].variant = "isolated") =>
                /\ agent.made[agent.gets[g].client].server = agent.gets[g].server
                /\ agent.made[agent.gets[g].client].user = agent.gets[g].user
                /\ agent.made[agent.gets[g].client].variant = "isolated"


\* ------------------------------------------------------ the worker pool's run
InitPool ==
    /\ IdleClients /\ disc = NoDiscovery /\ chan = NoChannel /\ rpc = NoRpc
    /\ agent = NoAgent /\ pipe = NoPipe
    /\ db = createWorkerPool

NextPool ==
    \/ TaskQueued /\ UNCHANGED <<clientVars, mgrVars, disc, chan, rpc, agent, pipe>>
    \/ PoolStart /\ UNCHANGED <<clientVars, mgrVars, disc, chan, rpc, agent, pipe>>
    \/ PoolStartRecovered /\ UNCHANGED <<clientVars, mgrVars, disc, chan, rpc, agent, pipe>>
    \/ \E l \in Loops : ClaimReturned(l) /\ UNCHANGED <<clientVars, mgrVars, disc, chan, rpc, agent, pipe>>
    \/ \E l \in Loops : ClaimThrew(l) /\ UNCHANGED <<clientVars, mgrVars, disc, chan, rpc, agent, pipe>>
    \/ \E l \in Loops : LoopWoke(l) /\ UNCHANGED <<clientVars, mgrVars, disc, chan, rpc, agent, pipe>>
    \/ \E l \in Loops : TaskProcessed(l) /\ UNCHANGED <<clientVars, mgrVars, disc, chan, rpc, agent, pipe>>
    \/ PoolStop /\ UNCHANGED <<clientVars, mgrVars, disc, chan, rpc, agent, pipe>>
    \/ PoolStopCheck /\ UNCHANGED <<clientVars, mgrVars, disc, chan, rpc, agent, pipe>>

SpecPool == InitPool /\ [][NextPool]_vars

\* C39: once stop() has resolved and until start() is called again, no
\* worker loop is processing a task.
C39_StoppedPoolIsQuiescent ==
    (db.unit = "pool" /\ db.quiescent) => \A l \in Loops : db.loops[l] # "processing"


\* ------------------------------------------------------- the scheduler's run
InitSched ==
    /\ IdleClients /\ disc = NoDiscovery /\ chan = NoChannel /\ rpc = NoRpc
    /\ agent = NoAgent /\ pipe = NoPipe
    /\ \E jobs \in [JobIds -> JobRows] :
         db = [unit |-> "scheduler", running |-> FALSE, intervalId |-> FALSE,
               starting |-> FALSE, jobs |-> jobs, now |-> 0, due |-> <<>>,
               enqueued |-> <<>>, completed |-> 0]

NextSched ==
    \/ ClockTick /\ UNCHANGED <<clientVars, mgrVars, disc, chan, rpc, agent, pipe>>
    \/ startScheduler /\ UNCHANGED <<clientVars, mgrVars, disc, chan, rpc, agent, pipe>>
    \/ stopScheduler /\ UNCHANGED <<clientVars, mgrVars, disc, chan, rpc, agent, pipe>>
    \/ checkAndProcessJobs /\ UNCHANGED <<clientVars, mgrVars, disc, chan, rpc, agent, pipe>>
    \/ JobEnqueued /\ UNCHANGED <<clientVars, mgrVars, disc, chan, rpc, agent, pipe>>
    \/ JobEnqueueFailed /\ UNCHANGED <<clientVars, mgrVars, disc, chan, rpc, agent, pipe>>
    \/ \E j \in JobIds, ok \in BOOLEAN :
         markJobCompleted(j, ok) /\ UNCHANGED <<clientVars, mgrVars, disc, chan, rpc, agent, pipe>>

SpecSched == InitSched /\ [][NextSched]_vars

\* C40: a scheduled job is enqueued at most once for each of its run
\* times, and a one-time job at most once.
C40_DueJobIsEnqueuedOncePerRunTime ==
    db.unit = "scheduler" =>
      \A i, k \in 1..Len(db.enqueued) :
         (i < k /\ db.enqueued[i].job = db.enqueued[k].job) =>
           /\ db.enqueued[i].nextRunAt # db.enqueued[k].nextRunAt
           /\ ~db.jobs[db.enqueued[i].job].oneTime

====
